---- MODULE Spec2Model ----
(***************************************************************************)
(* Model of the job migration engine of ojs-cli:                           *)
(*   - the live migration proxy (cmd/ojs/commands/contract.go:             *)
(*     MigrateLive and the MigrationProxy handlers), whose session comes   *)
(*     from the library package ojs-go-backend-common/migration;           *)
(*   - the NDJSON importer (internal/migrate/importer.go).                 *)
(***************************************************************************)
EXTENDS Integers, Sequences, FiniteSets, TLC

VARIABLES
    status,       \* Session state: idle, dual_run, cutover, rolled_back
    percentage,   \* Splitter percentage of traffic routed to OJS
    stats,        \* Splitter counters [ojs, legacy, errors]
    serving,      \* the proxy: constructed, serving, direct, failed
    job,          \* HandleJob requests: one record per request goroutine
                  \* (state: history, the session state at its decision)
    sampled,      \* history: the percentages the routing decisions sampled
    ctl,          \* control requests in flight (concurrent handlers)
    file,         \* importer: the lines of the NDJSON input
    readFails,    \* importer: the line at which the reader fails (0: never)
    rejectMod,    \* importer: the target rejects ids divisible by it (0: none)
    pos,          \* importer: number of lines consumed by scanner.Scan
    batch,        \* importer: the pending batch, a slice [buf, len]
    result,       \* importer: ImportResult [Total, Success, Failed, Batches]
    posted,       \* importer: records submitted to the target, in order
    progress,     \* importer: the calls made to the progress callback
    onProgress,   \* importer: the progress argument, nil or set
    ipc,          \* importer: idle, scanning, progress (in the callback,
                  \* inside the loop), progress_end (in the callback, after
                  \* the last flush), returned
    ierr,         \* importer: an error is returned with the result
    vfile,        \* migrate command: the lines of the --file argument
    cmd,          \* migrate command running: none, import, dry_run, validate
    runs,         \* migrate commands completed
    vpc,          \* validator: idle, validating, validated
    vpos,         \* validator: lineNum
    vresult,      \* validator: ValidationResult [Total, Valid, Invalid, Errors]
    vprev,        \* history: the result of the previous validation
    naming,       \* the naming routines: [pc, ident, once, twice]
    source,       \* adapter: sidekiq, bullmq, celery, faktory, river
    store,        \* adapter: the legacy store, queues of raw records
    failFrom,     \* adapter: the first read of the store that fails (0: none)
    exported,     \* adapter: what Export returned [pc, err, jobs]
    analysis,     \* adapter: what Analyze returned [pc, err, queues, total]
    tjobs,        \* export command: the jobs src.Export() returned
    tfile,        \* export command: the lines written to the output file
    tpc,          \* export, then re-read: idle, writing, written, reading,
                  \* read
    tread,        \* re-read: the records decoded from the lines
    terr,         \* re-read: the scanner ended with an error
    sreq,         \* status handler: [pc, stats, code, status], the counters
                  \* it read and, once it has answered, its response
    hreply,       \* health handler: its last response
    mstats,       \* Migration.stats: [Phase, Exported, Imported, Verified, Errors, CompletedAt]
    mu,           \* Migration.mu: the Run call holding it, 0 when free
    mrun,         \* the calls of Run: [pc, jobs, ret] per call
    mdry,         \* Migration.config.DryRun
    mposts        \* job-creation requests sent to the target

proxyVars == <<status, percentage, stats, serving, job, sampled, ctl>>
importVars ==
    <<file, readFails, rejectMod, pos, batch, result, posted, progress,
      onProgress, ipc, ierr>>
validateVars == <<vfile, cmd, runs, vpc, vpos, vresult, vprev>>
nameVars == <<naming>>
adapterVars == <<source, store, failFrom, exported, analysis>>
tripVars == <<tjobs, tfile, tpc, tread, terr>>
statusVars == <<sreq, hreply>>
runVars == <<mstats, mu, mrun, mdry, mposts>>

\* what the steps of one part of the program leave alone
exceptProxy ==
    <<importVars, validateVars, nameVars, adapterVars,
      tripVars, statusVars, runVars>>
exceptImport ==
    <<proxyVars, validateVars, nameVars, adapterVars,
      tripVars, statusVars, runVars>>
exceptCommand ==
    <<proxyVars, nameVars, adapterVars, tripVars,
      statusVars, runVars>>
exceptNaming ==
    <<proxyVars, importVars, validateVars, adapterVars,
      tripVars, statusVars, runVars>>
exceptAdapter ==
    <<proxyVars, importVars, validateVars, nameVars,
      tripVars, statusVars, runVars>>
exceptTrip ==
    <<proxyVars, importVars, validateVars, nameVars,
      adapterVars, statusVars, runVars>>
exceptStatus ==
    <<proxyVars, importVars, validateVars, nameVars,
      adapterVars, tripVars, runVars>>
exceptRun ==
    <<proxyVars, importVars, validateVars, nameVars,
      adapterVars, tripVars, statusVars>>
vars == <<status, percentage, stats, serving, job, sampled, ctl,
          file, readFails, rejectMod, pos, batch, result, posted, progress,
          onProgress, ipc, ierr,
          vfile, cmd, runs, vpc, vpos, vresult, vprev, naming,
          source, store, failFrom, exported, analysis,
          tjobs, tfile, tpc, tread, terr,
          sreq, hreply,
          mstats, mu, mrun, mdry, mposts>>

----------------------------------------------------------------------------
(* Bounds *)

NReq == 2
NCtl == 3

Req == 1..NReq
Ctl == 1..NCtl

(* Program constants *)

BodyLimit == 1048576
importBatchSize == 100

StatusOK == 200
StatusBadRequest == 400
StatusMethodNotAllowed == 405
StatusConflict == 409
StatusBadGateway == 502

Min(a, b) == IF a < b THEN a ELSE b

----------------------------------------------------------------------------
(* The session of package migration (library, not part of this source      *)
(* tree): the state machine and the splitter as the specification gives    *)
(* them.  Every operation is one step taken under the session's lock.      *)

States == {"idle", "dual_run", "cutover", "rolled_back"}

NewSession == [state |-> "idle", percentage |-> 0]

StartDualRun(st, pct, p) ==
    IF st \in {"idle", "dual_run"} /\ p >= 0 /\ p <= 100
    THEN [ok |-> TRUE, state |-> "dual_run", percentage |-> p]
    ELSE [ok |-> FALSE, state |-> st, percentage |-> pct]

Cutover(st, pct) ==
    IF st = "dual_run"
    THEN [ok |-> TRUE, state |-> "cutover", percentage |-> 100]
    ELSE [ok |-> FALSE, state |-> st, percentage |-> pct]

Rollback(st, pct) ==
    IF st \in {"dual_run", "cutover"}
    THEN [ok |-> TRUE, state |-> "rolled_back", percentage |-> 0]
    ELSE [ok |-> FALSE, state |-> st, percentage |-> pct]

\* one independent sample in 0..99 against the current percentage
ShouldRouteToOJS(pct, draw) == draw < pct

RecordRoute(s, toOJS) ==
    IF toOJS THEN [s EXCEPT !.ojs = @ + 1] ELSE [s EXCEPT !.legacy = @ + 1]

RecordError(s) == [s EXCEPT !.errors = @ + 1]

\* the translator accepts exactly the payloads that parse as a legacy job
Translate(data) == data.ok

----------------------------------------------------------------------------
(* Request inputs *)

Methods == {"POST", "GET"}

\* A request body: its size in bytes, whether the whole body is a
\* translatable legacy job, and whether its first BodyLimit bytes are
\* (a job followed by padding) when it is longer than that.
Bodies ==
    { [size |-> 40, ok |-> TRUE, prefixOk |-> TRUE],
      [size |-> 14, ok |-> FALSE, prefixOk |-> FALSE],
      [size |-> BodyLimit, ok |-> TRUE, prefixOk |-> TRUE],
      [size |-> BodyLimit + 1, ok |-> TRUE, prefixOk |-> FALSE],
      [size |-> BodyLimit + 1, ok |-> TRUE, prefixOk |-> TRUE] }

\* io.ReadAll(io.LimitReader(r.Body, 1<<20)): at most BodyLimit bytes are
\* read, the rest is dropped without an error.
LimitRead(body) ==
    [len |-> Min(body.size, BodyLimit),
     ok |-> IF body.size <= BodyLimit THEN body.ok ELSE body.prefixOk]

\* percentages offered by the --percentage flag and by request bodies
PctInputs == {-1, 0, 50, 100, 101}

\* samples the splitter draws, out of 0..99
Draws == {0, 49, 50, 99}

\* httpClient.Post: a transport error, or a response with a status code
ForwardOutcomes ==
    { [err |-> TRUE, code |-> 0],
      [err |-> FALSE, code |-> 201],
      [err |-> FALSE, code |-> 500] }

NewJob ==
    [pc |-> "new", size |-> 0, read |-> 0, decision |-> "none",
     fail |-> "none", path |-> "none", code |-> 0, errs |-> 0,
     translated |-> FALSE, fwd |-> FALSE, state |-> "none"]

NewCtl ==
    [pc |-> "new", kind |-> "none", arg |-> 0, with |-> {},
     pre |-> "none", code |-> 0]

----------------------------------------------------------------------------
(* MigrateLive: NewSession, then StartDualRun(--percentage), then serve.   *)
(* The tests build a MigrationProxy directly around a new session, so the  *)
(* handlers are also reachable on a session that was never started.        *)

ProxyInit ==
    /\ status = NewSession.state
    /\ percentage = NewSession.percentage
    /\ stats = [ojs |-> 0, legacy |-> 0, errors |-> 0]
    /\ serving = "constructed"
    /\ job = [r \in Req |-> NewJob]
    /\ sampled = {}
    /\ ctl = [c \in Ctl |-> NewCtl]

MigrateLive(p) ==
    /\ serving = "constructed"
    /\ LET res == StartDualRun(status, percentage, p) IN
       /\ status' = res.state
       /\ percentage' = res.percentage
       /\ serving' = IF res.ok THEN "serving" ELSE "failed"
    /\ UNCHANGED <<stats, job, sampled, ctl>>

\* &MigrationProxy{session: session, ...} around a session still idle
NewTestProxy ==
    /\ serving = "constructed"
    /\ serving' = "direct"
    /\ UNCHANGED <<status, percentage, stats, job, sampled, ctl>>

Live == serving \in {"serving", "direct"}

----------------------------------------------------------------------------
(* HandleJob.  First step: method check, body read, routing decision,      *)
(* translation; a request routed to OJS then blocks on the outbound Post.  *)
(* Each branch yields the request's record and the counters after it.      *)

\* method check and body read error: answered before any routing decision
JobReject(j, s, code) ==
    [j |-> [j EXCEPT !.pc = "done", !.path = "reject", !.code = code],
     s |-> s]

\* variant: a payload that fails to translate is passed through as legacy
JobTranslateFallback(j, s) ==
    [j |-> [j EXCEPT !.pc = "done", !.path = "legacy", !.code = StatusOK],
     s |-> s]

\* Translate failed: RecordError, 400 with "routed": "ojs", return
JobTranslateError(j, s) ==
    [j |-> [j EXCEPT !.pc = "done", !.errs = @ + 1,
                     !.path = "ojs_error", !.code = StatusBadRequest],
     s |-> RecordError(s)]

\* translated: the request is posted to ojsURL and waits for the reply
JobForward(j, s) ==
    [j |-> [j EXCEPT !.pc = "forwarding", !.fwd = TRUE], s |-> s]

\* the OJS branch: Translate, then the error answer or the outbound Post
JobRouteOJS(j, s, data) ==
    LET failed == ~Translate(data)
        t == [j EXCEPT !.translated = TRUE,
                       !.fail = IF failed THEN "translate" ELSE "none"]
    IN IF failed THEN JobTranslateError(t, s) ELSE JobForward(t, s)

\* the else branch: pass through as-is, 200 with "routed": "legacy"
JobRouteLegacy(j, s, data) ==
    [j |-> [j EXCEPT !.pc = "done", !.path = "legacy", !.code = StatusOK],
     s |-> s]

\* variant: the sample is compared with <= instead of <
JobRouteInclusive(j, s, body, pct, draw) ==
    LET data == LimitRead(body)
        toOJS == draw <= pct
        d == [j EXCEPT !.size = body.size, !.read = data.len,
                       !.decision = IF toOJS THEN "ojs" ELSE "legacy"]
        counted == RecordRoute(s, toOJS)
    IN IF toOJS THEN JobRouteOJS(d, counted, data)
       ELSE JobRouteLegacy(d, counted, data)

\* variant: the branches of the routing decision are exchanged
JobRouteSwapped(j, s, body, pct, draw) ==
    LET data == LimitRead(body)
        toOJS == ShouldRouteToOJS(pct, draw)
        d == [j EXCEPT !.size = body.size, !.read = data.len,
                       !.decision = IF toOJS THEN "ojs" ELSE "legacy"]
        counted == RecordRoute(s, toOJS)
    IN IF toOJS THEN JobRouteLegacy(d, counted, data)
       ELSE JobRouteOJS(d, counted, data)

\* the body as read, the splitter's decision (which counts the request)
\* and the branch taken
JobRoute(j, s, body, pct, draw) ==
    LET data == LimitRead(body)
        toOJS == ShouldRouteToOJS(pct, draw)
        d == [j EXCEPT !.size = body.size, !.read = data.len,
                       !.decision = IF toOJS THEN "ojs" ELSE "legacy"]
        counted == RecordRoute(s, toOJS)
    IN IF toOJS THEN JobRouteOJS(d, counted, data)
       ELSE JobRouteLegacy(d, counted, data)

\* requests are numbered in the order in which they arrive
HandleJobRoute(r, method, body, readErr, draw) ==
    /\ Live
    /\ job[r].pc = "new"
    /\ \A q \in Req : q < r => job[q].pc # "new"
    /\ LET routes == method = "POST" /\ ~readErr
           out == IF method # "POST"
                    THEN JobReject(job[r], stats, StatusMethodNotAllowed)
                  ELSE IF readErr
                    THEN JobReject(job[r], stats, StatusBadRequest)
                  ELSE JobRoute(job[r], stats, body, percentage, draw)
       IN /\ job' = [job EXCEPT ![r] =
                        [out.j EXCEPT !.state = IF routes THEN status ELSE @]]
          /\ stats' = out.s
          /\ sampled' = IF routes THEN sampled \cup {percentage} ELSE sampled
    /\ UNCHANGED <<status, percentage, serving, ctl>>

\* variant: a failed Post is answered 502 without RecordError
JobForwardErrorUncounted(j, s) ==
    [j |-> [j EXCEPT !.pc = "done", !.errs = @ + 1,
                     !.path = "ojs_error", !.code = StatusBadGateway],
     s |-> s]

\* Post returned an error: RecordError, 502 with "routed": "ojs"
JobForwardError(j, s) ==
    [j |-> [j EXCEPT !.pc = "done", !.errs = @ + 1,
                     !.path = "ojs_error", !.code = StatusBadGateway],
     s |-> RecordError(s)]

\* Post returned a response: relayed verbatim with X-Migration-Routed: ojs
JobRelay(j, s, code) ==
    [j |-> [j EXCEPT !.pc = "done", !.path = "ojs_relay", !.code = code],
     s |-> s]

\* Second step: the outbound Post returns.
HandleJobForward(r, reply) ==
    /\ job[r].pc = "forwarding"
    /\ LET j == [job[r] EXCEPT
                    !.fail = IF reply.err THEN "forward" ELSE "none"]
           out == IF reply.err THEN JobForwardError(j, stats)
                  ELSE JobRelay(j, stats, reply.code)
       IN /\ job' = [job EXCEPT ![r] = out.j]
          /\ stats' = out.s
    /\ UNCHANGED <<status, percentage, serving, sampled, ctl>>

HandleJob(r) ==
    \/ \E method \in Methods, body \in Bodies, readErr \in BOOLEAN,
          draw \in Draws :
            HandleJobRoute(r, method, body, readErr, draw)
    \/ \E reply \in ForwardOutcomes : HandleJobForward(r, reply)

\* the routing marker a response carries ("routed" field or
\* X-Migration-Routed header)
Routed(j) ==
    CASE j.path = "legacy" -> "legacy"
      [] j.path \in {"ojs_error", "ojs_relay"} -> "ojs"
      [] OTHER -> "none"

----------------------------------------------------------------------------
(* Control handlers.  Each makes one call on the session and answers 200,  *)
(* or 409 when the session returned an error.                              *)

\* variant: the handler sets the splitter's percentage itself when the
\* session is idle or in dual_run, whatever the value
SetPercentageCallUnchecked(st, pct, p) ==
    IF st \in {"idle", "dual_run"}
    THEN [state |-> "dual_run", percentage |-> p, code |-> StatusOK]
    ELSE [state |-> st, percentage |-> pct, code |-> StatusConflict]

\* variant: the error of StartDualRun is dropped and 200 is answered
SetPercentageCallIgnoresError(st, pct, p) ==
    LET res == StartDualRun(st, pct, p) IN
    [state |-> res.state, percentage |-> res.percentage, code |-> StatusOK]

\* p.session.StartDualRun(req.Percentage)
SetPercentageCall(st, pct, p) ==
    LET res == StartDualRun(st, pct, p) IN
    [state |-> res.state, percentage |-> res.percentage,
     code |-> IF res.ok THEN StatusOK ELSE StatusConflict]

\* variant: the error of Cutover is dropped and 200 is answered
CutoverCallIgnoresError(st, pct) ==
    LET res == Cutover(st, pct) IN
    [state |-> res.state, percentage |-> res.percentage, code |-> StatusOK]

\* variant: a cutover on a session already cut over is answered 200 again
CutoverCallRepeatable(st, pct) ==
    LET res == Cutover(st, pct) IN
    [state |-> res.state, percentage |-> res.percentage,
     code |-> IF res.ok \/ st = "cutover" THEN StatusOK ELSE StatusConflict]

\* p.session.Cutover()
CutoverCall(st, pct) ==
    LET res == Cutover(st, pct) IN
    [state |-> res.state, percentage |-> res.percentage,
     code |-> IF res.ok THEN StatusOK ELSE StatusConflict]

\* variant: the error of Rollback is dropped and 200 is answered
RollbackCallIgnoresError(st, pct) ==
    LET res == Rollback(st, pct) IN
    [state |-> res.state, percentage |-> res.percentage, code |-> StatusOK]

\* p.session.Rollback(reason); the reason defaults to "manual rollback"
\* and a body that fails to decode is ignored
RollbackCall(st, pct) ==
    LET res == Rollback(st, pct) IN
    [state |-> res.state, percentage |-> res.percentage,
     code |-> IF res.ok THEN StatusOK ELSE StatusConflict]

CtlKinds == {"percentage", "cutover", "rollback"}

SessionCall(kind, st, pct, arg) ==
    CASE kind = "percentage" -> SetPercentageCall(st, pct, arg)
      [] kind = "cutover" -> CutoverCall(st, pct)
      [] kind = "rollback" -> RollbackCall(st, pct)

\* what a handler answers before it reaches the session: 405 for a method
\* other than POST, 400 for a percentage body that does not decode
EarlyCode(kind, method, decodeOk) ==
    IF method # "POST" THEN StatusMethodNotAllowed
    ELSE IF kind = "percentage" /\ ~decodeOk THEN StatusBadRequest
    ELSE 0

\* a whole control handler, served without interleaving
Handle(kind, method, decodeOk, arg) ==
    /\ Live
    /\ LET early == EarlyCode(kind, method, decodeOk)
           res == SessionCall(kind, status, percentage, arg)
       IN IF early # 0
          THEN UNCHANGED <<status, percentage>>
          ELSE /\ status' = res.state
               /\ percentage' = res.percentage
    /\ UNCHANGED <<stats, serving, job, sampled, ctl>>

HandleSetPercentage ==
    \E method \in Methods, decodeOk \in BOOLEAN, p \in PctInputs :
        Handle("percentage", method, decodeOk, p)

HandleCutover == \E method \in Methods : Handle("cutover", method, TRUE, 0)

HandleRollback == \E method \in Methods : Handle("rollback", method, TRUE, 0)

----------------------------------------------------------------------------
(* HandleStatus and HandleHealth.  HandleStatus checks no method and takes  *)
(* no lock of the proxy: it reads the counters (Splitter.GetStats), then    *)
(* the state (Session.GetStatus), and answers 200.  HandleHealth answers    *)
(* 200 {"status": "ok"} without reading the session.                        *)

\* Splitter.GetStats: the counters at the instant of the call
GetStats(s) == s

\* Session.GetStatus: the state at the instant of the call
GetStatus(st) == st

NoCounters == [ojs |-> 0, legacy |-> 0, errors |-> 0]

NoStatusRequest ==
    [pc |-> "idle", stats |-> NoCounters, code |-> 0, status |-> "none"]

\* variant: the counters are read only when no HandleJob request is
\* waiting for its outbound Post
HandleStatusStatsAfterJobs ==
    /\ Live
    /\ \A r \in Req : job[r].pc # "forwarding"
    /\ sreq.pc \in {"idle", "replied"}
    /\ sreq' = [NoStatusRequest EXCEPT !.pc = "stats_read",
                                       !.stats = GetStats(stats)]
    /\ UNCHANGED hreply

\* a request arrives: stats := p.session.Splitter.GetStats()
HandleStatusStats ==
    /\ Live
    /\ sreq.pc \in {"idle", "replied"}
    /\ sreq' = [NoStatusRequest EXCEPT !.pc = "stats_read",
                                       !.stats = GetStats(stats)]
    /\ UNCHANGED hreply

\* writeHTTPJSON(w, 200, {..., "status": p.session.GetStatus(), "stats": stats})
HandleStatusReply ==
    /\ sreq.pc = "stats_read"
    /\ sreq' = [sreq EXCEPT !.pc = "replied", !.code = StatusOK,
                            !.status = GetStatus(status)]
    /\ UNCHANGED hreply

HandleStatus == HandleStatusStats \/ HandleStatusReply

HandleHealth ==
    /\ Live
    /\ hreply' = [code |-> StatusOK, status |-> "ok"]
    /\ UNCHANGED sreq

\* the HandleJob requests that can be in flight beside a status request
NStatusReq == 1

StatusIdle ==
    /\ sreq = NoStatusRequest
    /\ hreply = [code |-> 0, status |-> "none"]

----------------------------------------------------------------------------
(* The same handlers as concurrent goroutines: a request arrives, and its  *)
(* session call is applied at some later step.                             *)

\* Control requests are numbered in the order in which they arrive.
CtlArrive(c, kind, method, decodeOk, arg) ==
    /\ Live
    /\ ctl[c].pc = "new"
    /\ \A d \in Ctl : d < c => ctl[d].pc # "new"
    /\ LET early == EarlyCode(kind, method, decodeOk) IN
       ctl' = [ctl EXCEPT ![c] =
            IF early # 0
            THEN [ctl[c] EXCEPT !.pc = "done", !.kind = kind, !.code = early]
            ELSE [ctl[c] EXCEPT !.pc = "started", !.kind = kind,
                                !.arg = arg]]
    /\ UNCHANGED <<status, percentage, stats, serving, job, sampled>>

CtlCall(c) ==
    /\ ctl[c].pc = "started"
    /\ LET res == SessionCall(ctl[c].kind, status, percentage, ctl[c].arg) IN
       /\ status' = res.state
       /\ percentage' = res.percentage
       /\ ctl' = [ctl EXCEPT ![c] = [ctl[c] EXCEPT !.pc = "done", !.arg = 0,
                    !.with = {d \in Ctl \ {c} : ctl[d].pc = "started"},
                    !.pre = status, !.code = res.code]]
    /\ UNCHANGED <<stats, serving, job, sampled>>

ConcurrentHandler(c) ==
    \/ \E kind \in CtlKinds, method \in Methods, decodeOk \in BOOLEAN,
          p \in PctInputs :
            /\ kind # "percentage" => (p = 0 /\ decodeOk)
            /\ CtlArrive(c, kind, method, decodeOk, p)
    \/ CtlCall(c)

----------------------------------------------------------------------------
(* The importer (internal/migrate/importer.go).  A file is a sequence of   *)
(* lines; a line that unmarshals into an ExportedJob yields the record     *)
(* identified by its line number.                                          *)

LineKinds == {"blank", "space", "bad", "mistyped", "job"}

\* scanner.Text() of a blank line is the empty string
IsEmpty(kind) == kind = "blank"

\* json.Unmarshal([]byte(line), &job): fails on a line that is not JSON
\* (a line of spaces included) and on JSON of the wrong shape
Unmarshal(kind, lineNo) ==
    IF kind = "job" THEN [ok |-> TRUE, job |-> [id |-> lineNo]]
    ELSE [ok |-> FALSE, job |-> [id |-> 0]]

\* c.Post("/jobs", body): the request is sent; err is non-nil on a
\* transport error or a status >= 400
PostFails(j) == rejectMod > 0 /\ j.id % rejectMod = 0

\* a Go slice over a backing array: append writes at index len (over a
\* stale element when the array has room), batch[:0] keeps the array
EmptySlice == [buf |-> <<>>, len |-> 0]

SliceAppend(sl, x) ==
    [buf |-> IF sl.len < Len(sl.buf) THEN [sl.buf EXCEPT ![sl.len + 1] = x]
             ELSE Append(sl.buf, x),
     len |-> sl.len + 1]

\* variant: the batch is not truncated after a flush
SliceResetKeeps(sl) == sl

SliceReset(sl) == [buf |-> sl.buf, len |-> 0]

SliceElems(sl) == SubSeq(sl.buf, 1, sl.len)

\* variant: the loop stops at the first Post that returns an error
sendBatchFailFast(sl) ==
    LET jobs == SliceElems(sl)
        bad == {i \in 1..Len(jobs) : PostFails(jobs[i])}
        stop == IF bad = {} THEN Len(jobs)
                ELSE CHOOSE i \in bad : \A k \in bad : i <= k
    IN [sent |-> SubSeq(jobs, 1, stop),
        success |-> IF bad = {} THEN stop ELSE stop - 1,
        failed |-> IF bad = {} THEN 0 ELSE 1]

\* sendBatch: for _, job := range batch { Post; failed++ or success++ }
\* every element is posted, in order, whatever the earlier posts returned
sendBatch(sl) ==
    LET jobs == SliceElems(sl)
        bad == {i \in 1..Len(jobs) : PostFails(jobs[i])}
    IN [sent |-> jobs,
        success |-> Len(jobs) - Cardinality(bad),
        failed |-> Cardinality(bad)]

\* the flush of importFromReader: sendBatch, tallies, Batches++, progress
Flush(res, sl) ==
    LET out == sendBatch(sl)
        r2 == [res EXCEPT !.Success = @ + out.success,
                          !.Failed = @ + out.failed,
                          !.Batches = @ + 1]
    IN [result |-> r2, sent |-> out.sent,
        call |-> [imported |-> r2.Success, total |-> r2.Total]]

\* variant: a line that fails to unmarshal is counted failed but not in Total
OnUnmarshalErrorNoTotal(res) == [res EXCEPT !.Failed = @ + 1]

\* a line that fails to unmarshal: result.Failed++, result.Total++, continue
OnUnmarshalError(res) == [res EXCEPT !.Failed = @ + 1, !.Total = @ + 1]

\* if progress != nil { progress(result.Success, result.Total) }: the call
\* is made on the importing goroutine, which continues when it returns
CallProgress(call, inCall, after) ==
    IF onProgress = "set"
    THEN /\ progress' = Append(progress, call)
         /\ ipc' = inCall
    ELSE /\ UNCHANGED progress
         /\ ipc' = after

\* the progress callback returns
ProgressReturn ==
    /\ ipc \in {"progress", "progress_end"}
    /\ ipc' = IF ipc = "progress" THEN "scanning" ELSE "returned"
    /\ UNCHANGED <<file, readFails, rejectMod, pos, batch, result, posted,
                   progress, onProgress, ierr>>

\* one iteration of the for scanner.Scan() loop, on line pos + 1
ScanLine ==
    /\ ipc = "scanning"
    /\ pos < Len(file)
    /\ readFails # pos + 1
    /\ pos' = pos + 1
    /\ LET kind == file[pos + 1]
           u == Unmarshal(kind, pos + 1)
       IN IF IsEmpty(kind) THEN
              UNCHANGED <<batch, result, posted, progress, ipc>>
          ELSE IF ~u.ok THEN
              /\ result' = OnUnmarshalError(result)
              /\ UNCHANGED <<batch, posted, progress, ipc>>
          ELSE
              LET b2 == SliceAppend(batch, u.job)
                  r2 == [result EXCEPT !.Total = @ + 1]
              IN IF b2.len >= importBatchSize THEN
                     LET f == Flush(r2, b2) IN
                     /\ result' = f.result
                     /\ posted' = posted \o f.sent
                     /\ batch' = SliceReset(b2)
                     /\ CallProgress(f.call, "progress", "scanning")
                 ELSE
                     /\ result' = r2
                     /\ batch' = b2
                     /\ UNCHANGED <<posted, progress, ipc>>
    /\ UNCHANGED <<file, readFails, rejectMod, onProgress, ierr>>

\* variant: at end of input the batch is flushed even when it is empty
ScanEndFlushesEmpty ==
    /\ ipc = "scanning"
    /\ pos = Len(file) \/ readFails = pos + 1
    /\ IF readFails = pos + 1 THEN
           /\ ierr' = TRUE
           /\ ipc' = "returned"
           /\ UNCHANGED <<batch, result, posted, progress>>
       ELSE
           LET f == Flush(result, batch) IN
           /\ result' = f.result
           /\ posted' = posted \o f.sent
           /\ CallProgress(f.call, "progress_end", "returned")
           /\ UNCHANGED <<batch, ierr>>
    /\ UNCHANGED <<file, readFails, rejectMod, pos, onProgress>>

\* scanner.Scan() returns false: on a read error the result is returned
\* with the error; at end of input the remaining batch is flushed
ScanEnd ==
    /\ ipc = "scanning"
    /\ pos = Len(file) \/ readFails = pos + 1
    /\ IF readFails = pos + 1 THEN
           /\ ierr' = TRUE
           /\ ipc' = "returned"
           /\ UNCHANGED <<batch, result, posted, progress>>
       ELSE IF batch.len > 0 THEN
           LET f == Flush(result, batch) IN
           /\ result' = f.result
           /\ posted' = posted \o f.sent
           /\ CallProgress(f.call, "progress_end", "returned")
           /\ UNCHANGED <<batch, ierr>>
       ELSE /\ ipc' = "returned"
            /\ UNCHANGED <<batch, result, posted, progress, ierr>>
    /\ UNCHANGED <<file, readFails, rejectMod, pos, onProgress>>

(* Input files *)

MaxLines == 3
MaxHead == 1
MaxTail == 2

RECURSIVE SeqsUpTo(_, _)
SeqsUpTo(S, n) ==
    IF n = 0 THEN {<<>>}
    ELSE LET shorter == SeqsUpTo(S, n - 1) IN
         shorter \cup {Append(q, x) : q \in shorter, x \in S}

Run(n) == [i \in 1..n |-> "job"]

\* short files of every shape, and long runs of records that fill one or
\* two batches, with a few lines before and after: blank, malformed or a
\* record
RunLens == {importBatchSize - 1, 2 * importBatchSize - 1}

PadKinds == {"blank", "bad", "job"}
TailKinds == {"bad", "job"}

Files ==
    SeqsUpTo(LineKinds, MaxLines) \cup
    { h \o Run(n) \o t : h \in SeqsUpTo(PadKinds, MaxHead),
                         n \in RunLens,
                         t \in SeqsUpTo(TailKinds, MaxTail) }

RejectMods == {0, 1, 2}

ImportFresh ==
    /\ pos = 0
    /\ batch = EmptySlice
    /\ result = [Total |-> 0, Success |-> 0, Failed |-> 0, Batches |-> 0]
    /\ posted = <<>>
    /\ progress = <<>>
    /\ ierr = FALSE

\* importFromReader is entered with result := &ImportResult{}, batch nil
\* (the reader fails at no line, after the last line or, in a short file,
\* at line 2; the import without a callback is run on a target that
\* accepts and a reader that does not fail)
ImportInit ==
    /\ file \in Files
    /\ readFails \in {0, Len(file) + 1}
                     \cup (IF Len(file) <= MaxLines THEN {2} ELSE {})
    /\ rejectMod \in RejectMods
    /\ onProgress \in {"nil", "set"}
    /\ onProgress = "nil" => (rejectMod = 0 /\ readFails = 0)
    /\ ipc = "scanning"
    /\ ImportFresh

----------------------------------------------------------------------------

\* no import in progress
ImportIdle ==
    /\ file = <<>>
    /\ readFails = 0
    /\ rejectMod = 0
    /\ onProgress = "nil"
    /\ ipc = "idle"
    /\ ImportFresh

----------------------------------------------------------------------------
(* The naming routines: sidekiqClassToType of the adapters                 *)
(* (internal/migrate/sidekiq.go) and toOJSJobType / camelToSnake of the    *)
(* code analyzer (internal/migrate/analyzer.go).  An identifier is a       *)
(* sequence of ASCII characters, so byte s[i-1] is the previous character. *)

MaxIdLen == 3

Upper == {"A", "E", "H", "M", "P", "S", "T", "W"}
Lowercase ==
    {"a", "b", "c", "e", "h", "i", "l", "m", "o", "p", "r", "s", "t", "v", "w"}

\* unicode.ToLower on the letters above
LowerOf(ch) ==
    CASE ch = "A" -> "a" [] ch = "E" -> "e" [] ch = "H" -> "h"
      [] ch = "M" -> "m" [] ch = "P" -> "p" [] ch = "S" -> "s"
      [] ch = "T" -> "t" [] ch = "W" -> "w" [] OTHER -> ch

\* strings.ToLower
ToLower(str) == [i \in 1..Len(str) |-> LowerOf(str[i])]

\* strings.ReplaceAll(str, old, new) for a one- or two-character old:
\* non-overlapping matches, left to right
RECURSIVE ReplaceAll(_, _, _)
ReplaceAll(str, old, new) ==
    IF Len(str) < Len(old) THEN str
    ELSE IF SubSeq(str, 1, Len(old)) = old
         THEN new \o ReplaceAll(SubSeq(str, Len(old) + 1, Len(str)), old, new)
         ELSE <<str[1]>> \o ReplaceAll(Tail(str), old, new)

\* the concatenation of the pieces piece(1) .. piece(n)
RECURSIVE Concat(_, _)
Concat(piece, n) ==
    IF n = 0 THEN <<>> ELSE Concat(piece, n - 1) \o piece[n]

\* sidekiqClassToType: "::" becomes ".", a dot is inserted before an
\* uppercase letter whose previous byte is a lowercase letter, then ToLower
sidekiqClassToType(class) ==
    LET str == ReplaceAll(class, <<":", ":">>, <<".">>)
        piece == [i \in 1..Len(str) |->
                    IF i > 1 /\ str[i] \in Upper /\ str[i - 1] # "."
                             /\ str[i - 1] \in Lowercase
                    THEN <<".", str[i]>> ELSE <<str[i]>>]
    IN ToLower(Concat(piece, Len(str)))

\* variant: an underscore before every uppercase letter, case kept
camelToSnakeKeepsCase(str) ==
    LET piece == [i \in 1..Len(str) |->
                    IF i > 1 /\ str[i] \in Upper
                    THEN <<"_", str[i]>> ELSE <<str[i]>>]
    IN Concat(piece, Len(str))

\* camelToSnake: an underscore before every uppercase letter but the
\* first character, then ToLower
camelToSnake(str) ==
    LET piece == [i \in 1..Len(str) |->
                    IF i > 1 /\ str[i] \in Upper
                    THEN <<"_", str[i]>> ELSE <<str[i]>>]
    IN ToLower(Concat(piece, Len(str)))

\* toOJSJobType: camelToSnake, then "_" becomes "."
toOJSJobType(name) == ReplaceAll(camelToSnake(name), <<"_">>, <<".">>)

HTTPServer == <<"H", "T", "T", "P", "S", "e", "r", "v", "e", "r">>

MailersWelcomeEmail ==
    <<"M", "a", "i", "l", "e", "r", "s", ":", ":",
      "W", "e", "l", "c", "o", "m", "e", "E", "m", "a", "i", "l">>

\* identifiers: every short string over a few characters of each class,
\* and two class names
NameChars == {"A", "T", "b", ":", ".", "_"}

Idents == SeqsUpTo(NameChars, MaxIdLen) \cup {HTTPServer, MailersWelcomeEmail}

NoName == [adapter |-> <<>>, analyzer |-> <<>>]

\* both routines applied to the identifier
Canonicalize ==
    /\ naming.pc = "ident"
    /\ naming' = [naming EXCEPT !.pc = "once",
                    !.once = [adapter |-> sidekiqClassToType(naming.ident),
                              analyzer |-> toOJSJobType(naming.ident)]]
    /\ UNCHANGED exceptNaming

\* each routine applied to its own result
Recanonicalize ==
    /\ naming.pc = "once"
    /\ naming' = [naming EXCEPT !.pc = "twice",
                    !.twice = [adapter |-> sidekiqClassToType(naming.once.adapter),
                               analyzer |-> toOJSJobType(naming.once.analyzer)]]
    /\ UNCHANGED exceptNaming

NamingIdle == naming = [pc |-> "idle", ident |-> <<>>, once |-> NoName, twice |-> NoName]

NamingInit ==
    \E id \in Idents :
        naming = [pc |-> "ident", ident |-> id, once |-> NoName, twice |-> NoName]

NamingNext == Canonicalize \/ Recanonicalize

----------------------------------------------------------------------------
(* The validator (internal/migrate/validator.go) and the commands that     *)
(* read an NDJSON file: migrate import [--dry-run] and migrate validate.   *)
(* A line is described by the shape of each field of the JSON object it    *)
(* holds.                                                                  *)

MaxVLines == 2
MaxRuns == 2

TypeShapes == {"absent", "empty", "text", "number"}
QueueShapes == {"absent", "empty", "text"}
ArgsShapes == {"absent", "null", "array", "object", "scalar"}
PriorityShapes == {"absent", "null", "negative", "zero", "positive", "text"}

Obj(t, q, a, p) ==
    [kind |-> "object", type |-> t, queue |-> q, args |-> a, priority |-> p]

\* the empty line, and a line that is not JSON
BlankLine == [Obj("absent", "absent", "absent", "absent") EXCEPT !.kind = "blank"]
TextLine == [Obj("absent", "absent", "absent", "absent") EXCEPT !.kind = "text"]

\* every shape of each field next to well-formed other fields, and two
\* lines with several defects
VLines ==
    {BlankLine, TextLine}
    \cup {Obj(t, "text", "array", "absent") : t \in TypeShapes}
    \cup {Obj("text", q, "array", "absent") : q \in QueueShapes}
    \cup {Obj("text", "text", a, "absent") : a \in ArgsShapes}
    \cup {Obj("text", "text", "array", p) : p \in PriorityShapes}
    \cup {Obj("absent", "absent", "absent", "absent"),
          Obj("empty", "text", "object", "negative")}

VFiles == SeqsUpTo(VLines, MaxVLines)

\* json.Unmarshal([]byte(line), &job) into ExportedJob: a string field given
\* a number, or priority given a string, is an error; an absent or null
\* string stays ""; Args (json.RawMessage) is nil when absent and holds the
\* raw value otherwise, the literal null included; Priority (*int) is nil
\* when absent or null
UnmarshalJob(line) ==
    [ok |-> /\ line.kind = "object"
            /\ line.type # "number"
            /\ line.priority # "text",
     job |-> [Type |-> IF line.type = "text" THEN "t" ELSE "",
              Queue |-> IF line.queue = "text" THEN "q" ELSE "",
              Args |-> IF line.args = "absent" THEN "nil" ELSE line.args,
              Priority |->
                  [set |-> line.priority \in {"negative", "zero", "positive"},
                   val |-> IF line.priority = "negative" THEN -1
                           ELSE IF line.priority = "positive" THEN 5
                           ELSE 0]]]

\* json.Unmarshal(job.Args, &arr) with arr []json.RawMessage: an array
\* decodes, null decodes to a nil slice without error, anything else fails
UnmarshalArray(raw) == raw \in {"array", "null"}

ValidationError(line, msg) == <<[Line |-> line, Message |-> msg]>>

validateJob(j, line) ==
    (IF j.Type = ""
       THEN ValidationError(line, "missing required field: type") ELSE <<>>)
    \o (IF j.Queue = ""
       THEN ValidationError(line, "missing required field: queue") ELSE <<>>)
    \o (IF j.Args = "nil"
       THEN ValidationError(line, "missing required field: args")
       ELSE IF ~UnmarshalArray(j.Args)
       THEN ValidationError(line, "args must be a JSON array") ELSE <<>>)
    \o (IF j.Priority.set /\ j.Priority.val < 0
       THEN ValidationError(line, "priority must be non-negative") ELSE <<>>)

NewValidationResult == [Total |-> 0, Valid |-> 0, Invalid |-> 0, Errors |-> <<>>]

NoPrev == [done |-> FALSE, result |-> NewValidationResult]

\* validateFromReader is entered: result := &ValidationResult{}, lineNum := 0
ValidateStart(c) ==
    /\ cmd' = c
    /\ vpc' = "validating"
    /\ vpos' = 0
    /\ vresult' = NewValidationResult
    /\ UNCHANGED <<vfile, runs, vprev, importVars>>

\* one iteration of the for scanner.Scan() loop of validateFromReader
ValidateLine ==
    /\ vpc = "validating"
    /\ vpos < Len(vfile)
    /\ vpos' = vpos + 1
    /\ LET line == vfile[vpos + 1]
           u == UnmarshalJob(line)
           errs == validateJob(u.job, vpos + 1)
       IN vresult' =
            IF line.kind = "blank" THEN vresult
            ELSE IF ~u.ok THEN
                [vresult EXCEPT !.Total = @ + 1, !.Invalid = @ + 1,
                    !.Errors = @ \o ValidationError(vpos + 1, "invalid JSON")]
            ELSE IF Len(errs) > 0 THEN
                [vresult EXCEPT !.Total = @ + 1, !.Invalid = @ + 1,
                                !.Errors = @ \o errs]
            ELSE [vresult EXCEPT !.Total = @ + 1, !.Valid = @ + 1]
    /\ UNCHANGED <<vfile, cmd, runs, vpc, vprev, importVars>>

\* the scanner reaches the end of the file: return result, nil
ValidateEnd ==
    /\ vpc = "validating"
    /\ vpos = Len(vfile)
    /\ vpc' = "validated"
    /\ UNCHANGED <<vfile, cmd, runs, vpos, vresult, vprev, importVars>>

\* the line as the importer's json.Unmarshal sees it
ImportKind(line) ==
    IF line.kind = "blank" THEN "blank"
    ELSE IF UnmarshalJob(line).ok THEN "job"
    ELSE IF line.kind = "text" THEN "bad"
    ELSE "mistyped"

\* migrate.ImportFile(c, *file, func(imported, total int) {...})
ImportFileStart(c) ==
    /\ cmd' = c
    /\ file' = [i \in 1..Len(vfile) |-> ImportKind(vfile[i])]
    /\ readFails' = 0
    /\ rejectMod' \in RejectMods
    /\ onProgress' = "set"
    /\ ipc' = "scanning"
    /\ pos' = 0
    /\ batch' = EmptySlice
    /\ result' = [Total |-> 0, Success |-> 0, Failed |-> 0, Batches |-> 0]
    /\ posted' = <<>>
    /\ progress' = <<>>
    /\ ierr' = FALSE
    /\ UNCHANGED <<vfile, runs, vpc, vpos, vresult, vprev>>

\* migrateImport: with --dry-run ValidateFile, otherwise ImportFile
migrateImport(dryRun) ==
    /\ cmd = "none"
    /\ runs < MaxRuns
    /\ IF dryRun THEN ValidateStart("dry_run") ELSE ImportFileStart("import")

migrateValidate ==
    /\ cmd = "none"
    /\ runs < MaxRuns
    /\ ValidateStart("validate")

\* variant: the dry run does not return after reporting and goes on to
\* ImportFile
DryRunFallsThrough ==
    /\ cmd \in {"dry_run", "validate"}
    /\ vpc = "validated"
    /\ IF cmd = "dry_run"
       THEN /\ ImportFileStart("dry_run")
       ELSE /\ cmd' = "none"
            /\ runs' = runs + 1
            /\ vpc' = "idle"
            /\ vprev' = [done |-> TRUE, result |-> vresult]
            /\ UNCHANGED <<vfile, vpos, vresult, importVars>>

\* the validation is reported and the command returns nil
ValidateReturn ==
    /\ cmd \in {"dry_run", "validate"}
    /\ vpc = "validated"
    /\ cmd' = "none"
    /\ runs' = runs + 1
    /\ vpc' = "idle"
    /\ vprev' = [done |-> TRUE, result |-> vresult]
    /\ UNCHANGED <<vfile, vpos, vresult, importVars>>

\* ImportFile has returned: the import is reported and the command returns
ImportReturn ==
    /\ cmd # "none"
    /\ ipc = "returned"
    /\ cmd' = "none"
    /\ runs' = runs + 1
    /\ ipc' = "idle"
    /\ UNCHANGED <<vfile, vpc, vpos, vresult, vprev, file, readFails,
                   rejectMod, pos, batch, result, posted, progress,
                   onProgress, ierr>>

\* no command has run
ValidateIdle ==
    /\ vfile = <<>>
    /\ cmd = "none"
    /\ runs = 0
    /\ vpc = "idle"
    /\ vpos = 0
    /\ vresult = NewValidationResult
    /\ vprev = NoPrev

CommandInit ==
    /\ vfile \in VFiles
    /\ cmd = "none"
    /\ runs = 0
    /\ vpc = "idle"
    /\ vpos = 0
    /\ vresult = NewValidationResult
    /\ vprev = NoPrev

CommandNext ==
    \/ \E dryRun \in BOOLEAN : migrateImport(dryRun) /\ UNCHANGED exceptCommand
    \/ migrateValidate /\ UNCHANGED exceptCommand
    \/ ValidateLine /\ UNCHANGED exceptCommand
    \/ ValidateEnd /\ UNCHANGED exceptCommand
    \/ ValidateReturn /\ UNCHANGED exceptCommand
    \/ ScanLine /\ UNCHANGED exceptImport
    \/ ScanEnd /\ UNCHANGED exceptImport
    \/ ProgressReturn /\ UNCHANGED exceptImport
    \/ ImportReturn /\ UNCHANGED exceptCommand

----------------------------------------------------------------------------
(* The source adapters (internal/migrate: sidekiq.go, bullmq.go,           *)
(* celery.go, faktory.go, river.go).  A raw record is described by         *)
(* whether it decodes, by its identifier field (class, name, task,         *)
(* jobtype, kind) and by the shape of its args payload (args, data, the    *)
(* first element of the Celery body).  The reads of the legacy store are   *)
(* numbered in the order Export and Analyze make them.                     *)

MaxQueues == 2
MaxRecords == 2

Adapters == {"sidekiq", "bullmq", "celery", "faktory", "river"}

EmailWorker == <<"E", "m", "a", "i", "l", "W", "o", "r", "k", "e", "r">>

RawRecord(decodes, present, name, args, at) ==
    [json |-> decodes, ident |-> [present |-> present, name |-> name],
     args |-> args, at |-> at]

\* a payload that is not JSON can only be a Redis string of its own: the
\* data field of a BullMQ hash, the body of a Celery message
PayloadShapes(a) ==
    ArgsShapes \cup (IF a \in {"bullmq", "celery"} THEN {"garbage"} ELSE {})

\* when the job is due, as the source system records it: the at of Sidekiq
\* (seconds since the epoch, a float64; 0 when the job is not scheduled),
\* opts.delay of BullMQ (milliseconds; 0 when the job is not delayed), the
\* eta header of Celery, the at of Faktory and the scheduled_at of River
\* (RFC3339 strings; empty when the job is not scheduled)
ScheduleShapes(a) ==
    CASE a = "sidekiq" -> {"absent", "zero", "epoch"}
      [] a = "bullmq" -> {"absent", "zero", "delay"}
      [] a = "celery" -> {"absent", "eta"}
      [] a \in {"faktory", "river"} -> {"absent", "empty", "rfc3339"}

\* the source job is delayed or scheduled
IsScheduled(raw) == raw.at \in {"epoch", "delay", "eta", "rfc3339"}

\* a record that does not decode, every identifier next to an array, every
\* payload next to a class name, every schedule next to both
RawRecords(a) ==
    {RawRecord(FALSE, FALSE, <<>>, "absent", "absent"),
     RawRecord(TRUE, FALSE, <<>>, "array", "absent"),
     RawRecord(TRUE, TRUE, <<>>, "array", "absent")}
    \cup {RawRecord(TRUE, TRUE, EmailWorker, p, "absent") :
            p \in PayloadShapes(a)}
    \cup {RawRecord(TRUE, TRUE, EmailWorker, "array", t) :
            t \in ScheduleShapes(a)}

\* a json.RawMessage: a raw value, or a value inside a one-element array
RawValue(v) == [wrapped |-> FALSE, value |-> v]
WrappedValue(v) == [wrapped |-> TRUE, value |-> v]

\* json.RawMessage("[]")
EmptyArray == RawValue("array")

\* a json.RawMessage field after json.Unmarshal: nil when the key is
\* absent, the raw value otherwise (null included)
RawField(shape) == IF shape = "absent" THEN RawValue("nil") ELSE RawValue(shape)

\* wrapInArray: data starting with '[' is returned as it is; otherwise
\* json.Marshal([]json.RawMessage{data}), whose error is dropped: a nil
\* data gives [null], data that is not JSON gives a nil result
wrapInArray(data) ==
    IF data.value = "array" THEN data
    ELSE IF data.value = "garbage" THEN RawValue("nil")
    ELSE WrappedValue(data.value)

\* ScheduledAt: "" (left out of the NDJSON line), an RFC3339 timestamp,
\* or the decimal digits of a number of seconds
CanonicalJob(type, queue, args, at) ==
    [Type |-> type, Queue |-> queue, Args |-> args, ScheduledAt |-> at]

ParseError ==
    [ok |-> FALSE, job |-> CanonicalJob(<<>>, 0, RawValue("nil"), "")]

\* if sj.At > 0 { ej.ScheduledAt = fmt.Sprintf("%.0f", sj.At) }
SidekiqScheduledAt(raw) == IF raw.at = "epoch" THEN "decimal" ELSE ""

\* if o.Delay > 0 { time.Now().Add(o.Delay ms).UTC().Format(time.RFC3339) }
BullMQScheduledAt(raw) == IF raw.at = "delay" THEN "rfc3339" ELSE ""

\* if fj.At != "" { ej.ScheduledAt = fj.At }, and the same for River
CopiedScheduledAt(raw) == IF raw.at = "rfc3339" THEN "rfc3339" ELSE ""

Parsed(j) == [ok |-> TRUE, job |-> j]

\* parseSidekiqJob: class through sidekiqClassToType, args as they are
parseSidekiqJob(q, raw) ==
    IF ~raw.json THEN ParseError
    ELSE Parsed(CanonicalJob(sidekiqClassToType(raw.ident.name), q,
                             RawField(raw.args), SidekiqScheduledAt(raw)))

\* parseBullMQJob, on the fields of the job hash
parseBullMQJob(q, raw) ==
    IF ~raw.json \/ raw.ident.name = <<>> THEN ParseError
    ELSE Parsed(CanonicalJob(raw.ident.name, q,
                    IF raw.args = "absent" THEN EmptyArray
                    ELSE wrapInArray(RawValue(raw.args)),
                    BullMQScheduledAt(raw)))

\* parseCeleryMessage: the task header verbatim; args is the first element
\* of the decoded body, [] when the body is empty or does not decode; the
\* eta header is not read
parseCeleryMessage(q, raw) ==
    IF ~raw.json \/ raw.ident.name = <<>> THEN ParseError
    ELSE Parsed(CanonicalJob(raw.ident.name, q,
                    IF raw.args \in {"absent", "garbage"} THEN EmptyArray
                    ELSE RawValue(raw.args),
                    ""))

\* parseFaktoryJob, on a decoded faktoryJob: jobtype and args as they are
parseFaktoryJob(q, raw) ==
    Parsed(CanonicalJob(raw.ident.name, q, RawField(raw.args),
                        CopiedScheduledAt(raw)))

\* parseRiverJob: kind verbatim, args through wrapInArray
parseRiverJob(q, raw) ==
    IF ~raw.json \/ raw.ident.name = <<>> THEN ParseError
    ELSE Parsed(CanonicalJob(raw.ident.name, q,
                    IF raw.args = "absent" THEN EmptyArray
                    ELSE wrapInArray(RawField(raw.args)),
                    CopiedScheduledAt(raw)))

Parse(a, q, raw) ==
    CASE a = "sidekiq" -> parseSidekiqJob(q, raw)
      [] a = "bullmq" -> parseBullMQJob(q, raw)
      [] a = "celery" -> parseCeleryMessage(q, raw)
      [] a = "faktory" -> parseFaktoryJob(q, raw)
      [] a = "river" -> parseRiverJob(q, raw)

ReadFails(k) == failFrom > 0 /\ k >= failFrom

\* for _, raw := range jobs { if ej, err := parse(raw); err == nil {
\* exported = append(exported, *ej) } }.  BullMQ reads each job hash
\* (HGetAll, reads first + 1 ..) and skips the job when the read fails;
\* Faktory decodes the whole queue at once and skips it when that fails.
RECURSIVE ParseQueue(_, _, _, _, _)
ParseQueue(a, q, records, n, first) ==
    IF n = 0 THEN <<>>
    ELSE LET p == Parse(a, q, records[n])
             unread == a = "bullmq" /\ ReadFails(first + n)
         IN ParseQueue(a, q, records, n - 1, first)
              \o (IF p.ok /\ ~unread THEN <<p.job>> ELSE <<>>)

QueueJobs(a, q, records, first) ==
    IF a = "faktory" /\ \E i \in 1..Len(records) : ~records[i].json THEN <<>>
    ELSE ParseQueue(a, q, records, Len(records), first)

\* the reads one queue costs
QueueReads(a, records) == 1 + (IF a = "bullmq" THEN Len(records) ELSE 0)

\* the loop over the queues from queue q on, the next read being read
\* number first: Sidekiq returns the error of a failed queue read, the other
\* adapters go on to the next queue
RECURSIVE ExportQueues(_, _, _, _)
ExportQueues(a, queues, q, first) ==
    IF q > Len(queues) THEN [err |-> FALSE, jobs |-> <<>>]
    ELSE LET rest == ExportQueues(a, queues, q + 1,
                                  first + QueueReads(a, queues[q]))
         IN IF ReadFails(first)
            THEN IF a = "sidekiq" THEN [err |-> TRUE, jobs |-> <<>>]
                 ELSE rest
            ELSE IF rest.err THEN rest
            ELSE [err |-> FALSE,
                  jobs |-> QueueJobs(a, q, queues[q], first) \o rest.jobs]

\* the queues known when discovery (read 1) fails: Celery falls back to
\* its default queue, the first of the store
DefaultQueues(a, queues) ==
    IF a = "celery" /\ Len(queues) > 0 THEN <<queues[1]>> ELSE <<>>

\* Export: discovery of the queues (read 1), then the queues
ExportResult(a, queues) ==
    IF ReadFails(1)
    THEN IF a \in {"sidekiq", "bullmq", "faktory"}
         THEN [err |-> TRUE, jobs |-> <<>>]
         ELSE ExportQueues(a, DefaultQueues(a, queues), 1, 2)
    ELSE ExportQueues(a, queues, 1, 2)

\* Analyze: discovery (read 1), then one read per queue (none for
\* Faktory, whose counts come with the discovery).  Sidekiq and BullMQ
\* return the error of a failed queue read, Celery skips the queue, River
\* ignores the error and reports the queue with no jobs.
AnalyzeResult(a, queues) ==
    LET known == IF ReadFails(1) THEN DefaultQueues(a, queues) ELSE queues
        lost == {q \in 1..Len(known) : a # "faktory" /\ ReadFails(1 + q)}
        seen == {q \in 1..Len(known) : q \notin lost \/ a = "river"}
        failed == [err |-> TRUE, queues |-> 0, total |-> 0]
        count[q \in 0..Len(known)] ==
            IF q = 0 THEN 0
            ELSE count[q - 1] + (IF q \in lost THEN 0 ELSE Len(known[q]))
    IN IF ReadFails(1) /\ a \in {"sidekiq", "bullmq", "faktory"} THEN failed
       ELSE IF lost # {} /\ a \in {"sidekiq", "bullmq"} THEN failed
       ELSE [err |-> FALSE, queues |-> Cardinality(seen),
             total |-> count[Len(known)]]

Export ==
    /\ exported.pc = "idle"
    /\ LET r == ExportResult(source, store) IN
       exported' = [pc |-> "returned", err |-> r.err, jobs |-> r.jobs]
    /\ UNCHANGED <<source, store, failFrom, analysis>>
    /\ UNCHANGED exceptAdapter

Analyze ==
    /\ analysis.pc = "idle"
    /\ LET r == AnalyzeResult(source, store) IN
       analysis' = [pc |-> "returned", err |-> r.err, queues |-> r.queues,
                    total |-> r.total]
    /\ UNCHANGED <<source, store, failFrom, exported>>
    /\ UNCHANGED exceptAdapter

\* the stores of exactly nq queues holding at most nr records in all
RECURSIVE StoresOf(_, _, _)
StoresOf(a, nq, nr) ==
    IF nq = 0 THEN {<<>>}
    ELSE UNION { { <<c>> \o rest : rest \in StoresOf(a, nq - 1, nr - Len(c)) } :
                 c \in SeqsUpTo(RawRecords(a), nr) }

Stores(a) == UNION { StoresOf(a, nq, MaxRecords) : nq \in 0..MaxQueues }

\* no read fails, the store cannot be reached, the connection is lost
\* after the discovery, or after the first queue was read
FailPoints == {0, 1, 2, 3}

NotRun == [pc |-> "idle", err |-> FALSE, jobs |-> <<>>]
NotAnalyzed == [pc |-> "idle", err |-> FALSE, queues |-> 0, total |-> 0]

AdapterIdle ==
    /\ source = "none"
    /\ store = <<>>
    /\ failFrom = 0
    /\ exported = NotRun
    /\ analysis = NotAnalyzed

AdapterInit ==
    /\ source \in Adapters
    /\ store \in Stores(source)
    /\ failFrom \in FailPoints
    /\ exported = NotRun
    /\ analysis = NotAnalyzed

AdapterNext == Export \/ Analyze

----------------------------------------------------------------------------
(* The NDJSON file: migrateExport writes the exported jobs with a           *)
(* json.Encoder, one line per job; importFromReader and validateFromReader  *)
(* read it back with a bufio.Scanner and json.Unmarshal into an ExportedJob.*)
(* A job is described by its type and queue, by its args (a nil             *)
(* json.RawMessage, the bytes null, an array, an array too long for one     *)
(* scanner token), its priority (a *int: <<>> is nil), its scheduled_at     *)
(* and the kind of value its meta holds.                                    *)

MaxJobs == 2

ArgsValues == {"nil", "null", "array", "long_array"}
Priorities == {<<>>, <<0>>}
Timestamp == "2026-01-01T00:00:00Z"
ScheduledAts == {"", Timestamp}

\* meta is a map[string]any: nil, or holding a string (a job id), an int64
\* that a float64 represents exactly, or an int64 above 2^53 (river_id)
MetaValues == {"nil", "string", "int64", "int64_above_2_53"}

ExportedJob(t, q, a, p, s, m) ==
    [Type |-> t, Queue |-> q, Args |-> a, Priority |-> p, ScheduledAt |-> s,
     Meta |-> m]

ExportedJobs ==
    {ExportedJob("email.send", "default", a, p, s, m) :
        a \in ArgsValues, p \in Priorities, s \in ScheduledAts,
        m \in MetaValues}

\* enc.Encode(job): the keys of a line, <<>> for a key left out by
\* omitempty; a nil RawMessage is written as null, a number loses its Go
\* type
Encode(j) ==
    [type |-> j.Type, queue |-> j.Queue,
     args |-> IF j.Args = "nil" THEN "null" ELSE j.Args,
     priority |-> j.Priority,
     scheduled_at |-> IF j.ScheduledAt = "" THEN <<>> ELSE <<j.ScheduledAt>>,
     meta |-> CASE j.Meta = "nil" -> <<>>
                [] j.Meta = "string" -> <<"string">>
                [] j.Meta = "int64" -> <<"number">>
                [] j.Meta = "int64_above_2_53" -> <<"number_above_2_53">>]

\* a line longer than bufio.MaxScanTokenSize (64 KiB)
TooLong(line) == line.args = "long_array"

\* json.Unmarshal([]byte(line), &job): RawMessage keeps the bytes (null
\* included), a number in a map[string]any becomes a float64
Decode(line) ==
    ExportedJob(line.type, line.queue, line.args, line.priority,
                IF line.scheduled_at = <<>> THEN "" ELSE line.scheduled_at[1],
                CASE line.meta = <<>> -> "nil"
                  [] line.meta = <<"string">> -> "string"
                  [] line.meta = <<"number">> -> "float64"
                  [] line.meta = <<"number_above_2_53">> -> "float64_rounded")

\* for _, job := range jobs { enc.Encode(job) }
ExportEncode ==
    /\ tpc = "writing"
    /\ Len(tfile) < Len(tjobs)
    /\ tfile' = Append(tfile, Encode(tjobs[Len(tfile) + 1]))
    /\ UNCHANGED <<tjobs, tpc, tread, terr>>

\* migrateExport returns: the file is complete
ExportReturn ==
    /\ tpc = "writing"
    /\ Len(tfile) = Len(tjobs)
    /\ tpc' = "written"
    /\ UNCHANGED <<tjobs, tfile, tread, terr>>

\* scanner.Scan() and json.Unmarshal of the line; Scan stops with
\* bufio.ErrTooLong at a line that does not fit its buffer
RereadLine ==
    /\ tpc \in {"written", "reading"}
    /\ Len(tread) < Len(tfile)
    /\ LET line == tfile[Len(tread) + 1] IN
       IF TooLong(line)
       THEN /\ tpc' = "read"
            /\ terr' = TRUE
            /\ UNCHANGED tread
       ELSE /\ tpc' = "reading"
            /\ tread' = Append(tread, Decode(line))
            /\ UNCHANGED terr
    /\ UNCHANGED <<tjobs, tfile>>

\* scanner.Scan() returns false at the end of the file
RereadEnd ==
    /\ tpc \in {"written", "reading"}
    /\ Len(tread) = Len(tfile)
    /\ tpc' = "read"
    /\ UNCHANGED <<tjobs, tfile, tread, terr>>

TripIdle ==
    /\ tjobs = <<>>
    /\ tfile = <<>>
    /\ tpc = "idle"
    /\ tread = <<>>
    /\ terr = FALSE

TripInit ==
    /\ tjobs \in SeqsUpTo(ExportedJobs, MaxJobs)
    /\ tfile = <<>>
    /\ tpc = "writing"
    /\ tread = <<>>
    /\ terr = FALSE

TripNext ==
    \/ ExportEncode /\ UNCHANGED exceptTrip
    \/ ExportReturn /\ UNCHANGED exceptTrip
    \/ RereadLine /\ UNCHANGED exceptTrip
    \/ RereadEnd /\ UNCHANGED exceptTrip

----------------------------------------------------------------------------
(* Migration.Run of package livemigrate: export from the source backend,    *)
(* import into the target, verify the target.  Run holds m.mu from its      *)
(* first statement to its return; each request to a backend is a step.      *)

NRun == 2
MaxExported == 2

RunCalls == 1..NRun

\* an exported job: a JSON object, or a value that does not unmarshal into
\* a map (a number, a string, an array)
JobKinds == {"object", "other"}

\* New(cfg): stats: Stats{Phase: PhaseIdle}
NewStats ==
    [Phase |-> "idle", Exported |-> 0, Imported |-> 0, Verified |-> 0,
     Errors |-> 0, CompletedAt |-> FALSE]

NewRun == [pc |-> "new", jobs |-> <<>>, ret |-> "none"]

\* return fmt.Errorf("... failed: %w", err), with m.stats.Phase = PhaseFailed
RunFails(c) ==
    /\ mstats' = [mstats EXCEPT !.Phase = "failed"]
    /\ mrun' = [mrun EXCEPT ![c] = [pc |-> "returned", jobs |-> <<>>,
                                  ret |-> "error"]]
    /\ mu' = 0

\* variant: Run does not take m.mu
RunStartUnlocked(c) ==
    /\ mrun[c].pc = "new"
    /\ \A d \in RunCalls : d < c => mrun[d].pc # "new"
    /\ mu' = c
    /\ mstats' = [mstats EXCEPT !.Phase = "exporting"]
    /\ mrun' = [mrun EXCEPT ![c].pc = "exporting"]
    /\ UNCHANGED <<mdry, mposts>>

\* m.mu.Lock(); m.stats.StartedAt = time.Now(); m.stats.Phase = PhaseExporting
\* (the calls are numbered in the order in which they get the lock)
RunStart(c) ==
    /\ mrun[c].pc = "new"
    /\ \A d \in RunCalls : d < c => mrun[d].pc # "new"
    /\ mu = 0
    /\ mu' = c
    /\ mstats' = [mstats EXCEPT !.Phase = "exporting"]
    /\ mrun' = [mrun EXCEPT ![c].pc = "exporting"]
    /\ UNCHANGED <<mdry, mposts>>

\* exportJobs: the request to the source fails or its body does not parse
\* (Run fails), or the body holds the jobs: Exported.Store(len(jobs)), then
\* m.stats.Phase = PhaseImporting
exportJobs(c, ok, jobs) ==
    /\ mrun[c].pc = "exporting"
    /\ IF ok
       THEN /\ mstats' = [mstats EXCEPT !.Exported = Len(jobs),
                                        !.Phase = "importing"]
            /\ mrun' = [mrun EXCEPT ![c].pc = "importing", ![c].jobs = jobs]
            /\ UNCHANGED mu
       ELSE RunFails(c)
    /\ UNCHANGED <<mdry, mposts>>

\* importJobs, one job of the loop: in a dry mrun Imported.Add(1); a job
\* that does not unmarshal, or whose POST to the target fails, Errors.Add(1);
\* otherwise Imported.Add(1)
importJob(c, accepted) ==
    /\ mrun[c].pc = "importing"
    /\ mrun[c].jobs # <<>>
    /\ LET raw == Head(mrun[c].jobs)
           requests == ~mdry /\ raw = "object"
           imported == mdry \/ (raw = "object" /\ accepted)
       IN /\ mstats' = IF imported
                       THEN [mstats EXCEPT !.Imported = @ + 1]
                       ELSE [mstats EXCEPT !.Errors = @ + 1]
          /\ mposts' = IF requests THEN mposts + 1 ELSE mposts
    /\ mrun' = [mrun EXCEPT ![c].jobs = Tail(@)]
    /\ UNCHANGED <<mu, mdry>>

\* importJobs returns nil: m.stats.Phase = PhaseVerifying
importJobsReturn(c) ==
    /\ mrun[c].pc = "importing"
    /\ mrun[c].jobs = <<>>
    /\ mstats' = [mstats EXCEPT !.Phase = "verifying"]
    /\ mrun' = [mrun EXCEPT ![c].pc = "verifying"]
    /\ UNCHANGED <<mu, mdry, mposts>>

\* verifyTarget: the health request fails (Run fails), or
\* Verified.Store(Imported.Load()), Phase = PhaseComplete, CompletedAt = &now
verifyTarget(c, healthy) ==
    /\ mrun[c].pc = "verifying"
    /\ IF healthy
       THEN /\ mstats' = [mstats EXCEPT !.Verified = mstats.Imported,
                                        !.Phase = "complete",
                                        !.CompletedAt = TRUE]
            /\ mrun' = [mrun EXCEPT ![c] = [pc |-> "returned", jobs |-> <<>>,
                                          ret |-> "nil"]]
            /\ mu' = 0
       ELSE RunFails(c)
    /\ UNCHANGED <<mdry, mposts>>

MigrationRun(c) ==
    \/ RunStart(c)
    \/ \E ok \in BOOLEAN, jobs \in SeqsUpTo(JobKinds, MaxExported) :
          /\ ~ok => jobs = <<>>
          /\ exportJobs(c, ok, jobs)
    \/ \E accepted \in BOOLEAN : importJob(c, accepted)
    \/ importJobsReturn(c)
    \/ \E healthy \in BOOLEAN : verifyTarget(c, healthy)

RunIdle ==
    /\ mstats = NewStats
    /\ mu = 0
    /\ mrun = [c \in RunCalls |-> NewRun]
    /\ mdry = FALSE
    /\ mposts = 0

RunInit ==
    /\ mstats = NewStats
    /\ mu = 0
    /\ mrun = [c \in RunCalls |-> NewRun]
    /\ mdry \in BOOLEAN
    /\ mposts = 0

RunNext == \E c \in RunCalls : MigrationRun(c) /\ UNCHANGED exceptRun

----------------------------------------------------------------------------

Init ==
    /\ ProxyInit /\ ImportIdle /\ ValidateIdle /\ NamingIdle /\ AdapterIdle
    /\ TripIdle
    /\ StatusIdle
    /\ RunIdle

TripStart ==
    /\ ProxyInit /\ ImportIdle /\ ValidateIdle /\ NamingIdle /\ AdapterIdle
    /\ TripInit
    /\ StatusIdle
    /\ RunIdle

TripSpec == TripStart /\ [][TripNext]_vars

RunStartState ==
    /\ ProxyInit /\ ImportIdle /\ ValidateIdle /\ NamingIdle /\ AdapterIdle
    /\ TripIdle
    /\ StatusIdle
    /\ RunInit

RunSpec == RunStartState /\ [][RunNext]_vars

AdapterStart ==
    /\ ProxyInit /\ ImportIdle /\ ValidateIdle /\ NamingIdle /\ AdapterInit
    /\ TripIdle
    /\ StatusIdle
    /\ RunIdle

AdapterSpec == AdapterStart /\ [][AdapterNext]_vars

CommandStart ==
    /\ ProxyInit /\ ImportIdle /\ CommandInit /\ NamingIdle /\ AdapterIdle
    /\ TripIdle
    /\ StatusIdle
    /\ RunIdle

CommandSpec == CommandStart /\ [][CommandNext]_vars

NamingStart ==
    /\ ProxyInit /\ ImportIdle /\ ValidateIdle /\ NamingInit /\ AdapterIdle
    /\ TripIdle
    /\ StatusIdle
    /\ RunIdle

NamingSpec == NamingStart /\ [][NamingNext]_vars

Next ==
    \/ \E p \in PctInputs : MigrateLive(p) /\ UNCHANGED exceptProxy
    \/ NewTestProxy /\ UNCHANGED exceptProxy
    \/ \E r \in Req : HandleJob(r) /\ UNCHANGED exceptProxy
    \/ HandleSetPercentage /\ UNCHANGED exceptProxy
    \/ HandleCutover /\ UNCHANGED exceptProxy
    \/ HandleRollback /\ UNCHANGED exceptProxy

Spec == Init /\ [][Next]_vars

ConcNext ==
    \/ \E p \in PctInputs : MigrateLive(p) /\ UNCHANGED exceptProxy
    \/ NewTestProxy /\ UNCHANGED exceptProxy
    \/ \E c \in Ctl : ConcurrentHandler(c) /\ UNCHANGED exceptProxy

ConcSpec == Init /\ [][ConcNext]_vars

\* The handlers of Next together with the status and health handlers
StatusNext ==
    \/ \E p \in PctInputs : MigrateLive(p) /\ UNCHANGED exceptProxy
    \/ NewTestProxy /\ UNCHANGED exceptProxy
    \/ \E r \in 1..NStatusReq : HandleJob(r) /\ UNCHANGED exceptProxy
    \/ HandleSetPercentage /\ UNCHANGED exceptProxy
    \/ HandleCutover /\ UNCHANGED exceptProxy
    \/ HandleRollback /\ UNCHANGED exceptProxy
    \/ HandleStatus /\ UNCHANGED exceptStatus
    \/ HandleHealth /\ UNCHANGED exceptStatus

StatusSpec == Init /\ [][StatusNext]_vars

\* net/http runs each handler in a goroutine of its own: a status or health
\* request that has arrived runs to its response
StatusLive ==
    /\ StatusSpec
    /\ WF_vars(HandleStatusReply /\ UNCHANGED exceptStatus)

ImportNext ==
    \/ ScanLine /\ UNCHANGED exceptImport
    \/ ScanEnd /\ UNCHANGED exceptImport
    \/ ProgressReturn /\ UNCHANGED exceptImport

ImportStart ==
    /\ ProxyInit /\ ImportInit /\ ValidateIdle /\ NamingIdle /\ AdapterIdle
    /\ TripIdle
    /\ StatusIdle
    /\ RunIdle

ImportSpec == ImportStart /\ [][ImportNext]_vars

\* The importing goroutine takes its next step whenever it has one; whether
\* a call to the progress callback returns is up to the callback.
ImportLive ==
    /\ ImportSpec
    /\ WF_vars(ScanLine /\ UNCHANGED exceptImport)
    /\ WF_vars(ScanEnd /\ UNCHANGED exceptImport)

----------------------------------------------------------------------------
(* Properties of the session state machine, on the concurrent handlers     *)

\* control request c makes its session call in this step
Calls(c, kind) ==
    /\ ctl[c].pc = "started"
    /\ ctl[c].kind = kind
    /\ ctl'[c].pc = "done"

Unchanged == status' = status /\ percentage' = percentage

\* C1: a cutover succeeds exactly when the session is in dual_run (then the
\* state becomes cutover and the percentage 100); from idle, cutover or
\* rolled_back it is answered 409 and state and percentage stay as they
\* were, so the second of two cutovers in a row fails.
C1_CutoverStep ==
    \A c \in Ctl : Calls(c, "cutover") =>
        IF status = "dual_run"
        THEN /\ ctl'[c].code = StatusOK
             /\ status' = "cutover"
             /\ percentage' = 100
        ELSE /\ ctl'[c].code = StatusConflict
             /\ Unchanged

C1_CutoverOnlyFromDualRun == [][C1_CutoverStep]_vars

C1_Witness ==
    \E c, d \in Ctl :
        /\ ctl[c].pc = "done" /\ ctl[c].kind = "cutover"
        /\ ctl[c].pre = "dual_run" /\ ctl[c].code = StatusOK
        /\ ctl[d].pc = "done" /\ ctl[d].kind = "cutover"
        /\ ctl[d].pre = "cutover" /\ ctl[d].code = StatusConflict

\* two control requests were in flight together: one had arrived and not
\* yet made its session call when the other made its call
Concurrent(c, d) == c # d /\ (d \in ctl[c].with \/ c \in ctl[d].with)

\* a finished cutover or rollback request that reached the session
Attempt(c) ==
    /\ ctl[c].pc = "done"
    /\ ctl[c].kind \in {"cutover", "rollback"}
    /\ ctl[c].code \in {StatusOK, StatusConflict}

\* C2 as claimed: of two concurrent cutover/rollback attempts, in any
\* combination, on a session in dual_run, exactly one succeeds and the
\* other observes StateConflict.
C2_ExactlyOneOfAnyTwo ==
    \A c, d \in Ctl :
        (/\ Attempt(c) /\ Attempt(d) /\ Concurrent(c, d)
         /\ (ctl[c].pre = "dual_run" \/ ctl[d].pre = "dual_run"))
        => /\ ~(ctl[c].code = StatusOK /\ ctl[d].code = StatusOK)
           /\ (ctl[c].code = StatusOK \/ ctl[d].code = StatusOK)

\* C2 amended: every attempt observes success or StateConflict; two
\* concurrent attempts of the same kind never both succeed, and exactly one
\* of them succeeds when the session is in dual_run as the first is applied;
\* a cutover and a rollback both succeed only when the cutover is applied
\* first (rollback is legal from cutover).
C2_ConcurrentTransitions ==
    \A c, d \in Ctl :
        (Attempt(c) /\ Attempt(d) /\ Concurrent(c, d)) =>
            /\ (ctl[c].kind = ctl[d].kind) =>
                    ~(ctl[c].code = StatusOK /\ ctl[d].code = StatusOK)
            /\ (/\ ctl[c].kind = ctl[d].kind
                /\ (ctl[c].pre = "dual_run" \/ ctl[d].pre = "dual_run")) =>
                    (ctl[c].code = StatusOK \/ ctl[d].code = StatusOK)
            /\ (ctl[c].code = StatusOK /\ ctl[d].code = StatusOK) =>
                    \E x, y \in {c, d} :
                        /\ ctl[x].kind = "cutover"
                        /\ ctl[x].pre = "dual_run"
                        /\ ctl[y].kind = "rollback"
                        /\ ctl[y].pre = "cutover"
                        /\ y \in ctl[x].with

C2_Witness ==
    \E c, d \in Ctl :
        /\ Attempt(c) /\ Attempt(d) /\ Concurrent(c, d)
        /\ ctl[c].kind = "cutover" /\ ctl[d].kind = "cutover"
        /\ ctl[c].pre = "dual_run"
        /\ ctl[c].code = StatusOK /\ ctl[d].code = StatusConflict

\* C3: a rollback from dual_run or from cutover succeeds, sets the
\* percentage to 0 and the state to rolled_back; a rollback from idle is
\* answered 409 and leaves state and percentage as they were.
C3_RollbackStep ==
    \A c \in Ctl : Calls(c, "rollback") =>
        /\ status \in {"dual_run", "cutover"} =>
              /\ ctl'[c].code = StatusOK
              /\ status' = "rolled_back"
              /\ percentage' = 0
        /\ status = "idle" =>
              /\ ctl'[c].code = StatusConflict
              /\ Unchanged

C3_Rollback == [][C3_RollbackStep]_vars

C3_Witness ==
    \E c, d \in Ctl :
        /\ ctl[c].pc = "done" /\ ctl[c].kind = "rollback"
        /\ ctl[c].pre = "idle" /\ ctl[c].code = StatusConflict
        /\ ctl[d].pc = "done" /\ ctl[d].kind = "rollback"
        /\ ctl[d].pre = "dual_run" /\ ctl[d].code = StatusOK
        /\ status = "rolled_back" /\ percentage = 0

\* C4: a set-percentage request succeeds in dual_run and updates the
\* percentage; in cutover or rolled_back it is rejected, state and
\* percentage stay as they were and the session does not go back to
\* dual_run.
C4_SetPercentageStep ==
    \A c \in Ctl : Calls(c, "percentage") =>
        /\ (status = "dual_run" /\ ctl[c].arg \in 0..100) =>
              /\ ctl'[c].code = StatusOK
              /\ status' = "dual_run"
              /\ percentage' = ctl[c].arg
        /\ status \in {"cutover", "rolled_back"} =>
              /\ ctl'[c].code = StatusConflict
              /\ Unchanged

----------------------------------------------------------------------------
(* Properties of HandleJob                                                 *)

Decided(d) == {r \in Req : job[r].decision = d}

Failed == {r \in Req : job[r].fail # "none"}

AllDone == \A r \in Req : job[r].pc = "done"

\* C5: a request routed to OJS whose translation or forward failed has
\* incremented the error counter exactly once and is answered with an
\* error response marked routed=ojs; no request routed to OJS is answered
\* through the legacy pass-through.
C5_RoutedDecisionFinal ==
    /\ \A r \in Req :
          (job[r].decision = "ojs" /\ job[r].fail # "none") =>
              /\ job[r].pc = "done"
              /\ job[r].errs = 1
              /\ job[r].path = "ojs_error"
              /\ Routed(job[r]) = "ojs"
              /\ job[r].code =
                    IF job[r].fail = "translate" THEN StatusBadRequest
                    ELSE StatusBadGateway
    /\ \A r \in Req : job[r].decision = "ojs" => job[r].path # "legacy"
    /\ stats.errors = Cardinality(Failed)

C5_Witness ==
    \E r, q \in Req :
        /\ job[r].fail = "translate" /\ job[r].code = StatusBadRequest
        /\ job[q].fail = "forward" /\ job[q].code = StatusBadGateway
        /\ stats.errors = 2

\* C6: while every routing decision has been taken at percentage 0, every
\* routed request, however the requests interleave, is answered
\* routed=legacy, and none was translated or forwarded.
C6_ZeroPercentAllLegacy ==
    sampled \subseteq {0} =>
        /\ \A r \in Req : job[r].pc # "new" =>
              /\ job[r].pc = "done"
              /\ job[r].path \in {"legacy", "reject"}
              /\ ~job[r].translated
              /\ ~job[r].fwd
        /\ stats.ojs = 0

C6_Witness ==
    /\ sampled = {0}
    /\ status = "dual_run"
    /\ \A r \in Req : job[r].path = "legacy" /\ Routed(job[r]) = "legacy"
    /\ stats.legacy = NReq

\* the target answered every forwarded request with success
TargetAlwaysSucceeds ==
    \A r \in Req : job[r].fwd =>
        (job[r].pc = "done" => job[r].path = "ojs_relay"
                               /\ job[r].code = 201)

C7_Exact ==
    /\ stats.ojs = Cardinality(Decided("ojs"))
    /\ stats.legacy = Cardinality(Decided("legacy"))
    /\ stats.errors = Cardinality(Failed)

\* C7 as claimed: the counters are exact, and with percentage 100 and a
\* target that always succeeds, once the requests have completed
\* routed_to_target is their number and errors is 0.
C7_FullPercentNoErrors ==
    /\ C7_Exact
    /\ (AllDone /\ sampled \subseteq {100} /\ TargetAlwaysSucceeds) =>
          /\ stats.ojs = Cardinality(Decided("ojs") \cup Decided("legacy"))
          /\ stats.errors = 0

C7_Mono ==
    /\ stats'.ojs >= stats.ojs
    /\ stats'.legacy >= stats.legacy
    /\ stats'.errors >= stats.errors

\* C7 amended: the counters never decrease; routed_to_target and
\* routed_to_legacy count the requests decided each way and errors the
\* requests whose translation or forward failed; with percentage 100, a
\* target that always succeeds and request bodies that all translate,
\* routed_to_target is the number of routed requests and errors is 0.
C7_CountersExact ==
    /\ [](/\ C7_Exact
          /\ (/\ AllDone /\ sampled \subseteq {100} /\ TargetAlwaysSucceeds
              /\ \A r \in Req : job[r].fail # "translate") =>
                 /\ stats.ojs =
                      Cardinality(Decided("ojs") \cup Decided("legacy"))
                 /\ stats.errors = 0)
    /\ [][C7_Mono]_vars

C7_Witness ==
    /\ AllDone
    /\ sampled = {100}
    /\ \A r \in Req : job[r].path = "ojs_relay" /\ job[r].code = 201
    /\ stats = [ojs |-> NReq, legacy |-> 0, errors |-> 0]

\* C8: a request whose body is larger than the bound is rejected as
\* PayloadTooLarge (413) and is neither translated, forwarded nor passed
\* through.
C8_OversizeRejected ==
    \A r \in Req :
        (job[r].pc # "new" /\ job[r].size > BodyLimit) =>
            /\ job[r].code = 413
            /\ job[r].path = "reject"
            /\ ~job[r].translated
            /\ ~job[r].fwd

----------------------------------------------------------------------------
(* Properties of the importer                                              *)

Malformed == {"space", "bad", "mistyped"}

LinesOf(kinds, n) == {i \in 1..n : file[i] \in kinds}

\* q is the sequence of the records of the well-formed lines among the
\* first n, in file order: only such records, in increasing line order,
\* and as many as there are such lines
IsJobsUpTo(q, n) ==
    /\ \A i \in 1..Len(q) : q[i].id \in 1..n /\ file[q[i].id] = "job"
    /\ \A i \in 1..(Len(q) - 1) : q[i].id < q[i + 1].id
    /\ Len(q) = Cardinality(LinesOf({"job"}, n))

Rejected(n) == {i \in LinesOf({"job"}, n) : PostFails([id |-> i])}

Returned == ipc = "returned" /\ ~ierr

\* inside the scanner loop, between two lines
InLoop == ipc \in {"scanning", "progress"}

\* the step of ScanLine on a line of the given kinds
Scans(kinds) == ipc = "scanning" /\ pos' = pos + 1 /\ file[pos'] \in kinds

C9_Step ==
    /\ Scans(Malformed) =>
          /\ result'.Total = result.Total + 1
          /\ result'.Failed = result.Failed + 1
          /\ result'.Success = result.Success
          /\ posted' = posted /\ batch' = batch /\ ipc' = "scanning"
    /\ Scans({"blank"}) => (result' = result /\ ipc' = "scanning")

C9_Final ==
    /\ \A i \in 1..Len(posted) : file[posted[i].id] = "job"
    /\ result.Total = Cardinality(LinesOf(Malformed \cup {"job"}, pos))
    /\ Returned =>
          /\ pos = Len(file)
          /\ result.Failed = Cardinality(LinesOf(Malformed, pos))
                               + Cardinality(Rejected(pos))
          /\ result.Success = Cardinality(LinesOf({"job"}, pos))
                               - Cardinality(Rejected(pos))
    /\ (Returned /\ file = <<"job", "bad", "job">> /\ rejectMod = 0) =>
          (result.Total = 3 /\ result.Success = 2 /\ result.Failed = 1)

\* C9: a line that does not unmarshal adds one to Total and one to Failed,
\* is never submitted and does not stop the stream: every later line is
\* read and processed, so that a 3-line file whose 2nd line is malformed
\* gives total=3, success=2, failed=1 on a target that accepts; a blank
\* line changes no counter.
C9_MalformedLineCounted == [](C9_Final) /\ [][C9_Step]_vars

C9_Witness ==
    /\ Returned
    /\ file = <<"job", "bad", "job">>
    /\ rejectMod = 0
    /\ result = [Total |-> 3, Success |-> 2, Failed |-> 1, Batches |-> 1]
    /\ posted = <<[id |-> 1], [id |-> 3]>>

\* C10: the records submitted so far followed by the pending batch are the
\* well-formed lines read so far, in file order; when reading ends without
\* an I/O error the records submitted are exactly the well-formed lines of
\* the file in order, each once, across every flush.
C10_SubmittedInFileOrder ==
    /\ InLoop => IsJobsUpTo(posted \o SliceElems(batch), pos)
    /\ Returned => IsJobsUpTo(posted, Len(file))

C10_Witness ==
    /\ Returned
    /\ result.Batches >= 2
    /\ Len(posted) > importBatchSize
    /\ batch.len > 0
    /\ Len(batch.buf) > batch.len
    /\ \E i \in 1..Len(file) : file[i] \in Malformed

\* P: the number of well-formed lines among the first n
WellFormed(n) == Cardinality(LinesOf({"job"}, n))

CeilDiv(a, b) == (a + b - 1) \div b

C11_Bounded ==
    /\ batch.len <= importBatchSize
    /\ InLoop =>
          /\ batch.len < importBatchSize
          /\ batch.len = WellFormed(pos) % importBatchSize
          /\ result.Batches = WellFormed(pos) \div importBatchSize
    /\ Returned =>
          result.Batches = CeilDiv(WellFormed(Len(file)), importBatchSize)

\* a flush is a step that counts a batch: while scanning it submits exactly
\* importBatchSize records, at end of input the non-empty remainder
C11_FlushStep ==
    /\ result'.Batches \in {result.Batches, result.Batches + 1}
    /\ result'.Batches = result.Batches => posted' = posted
    /\ (result'.Batches # result.Batches /\ pos' # pos) =>
          Len(posted') = Len(posted) + importBatchSize
    /\ (result'.Batches # result.Batches /\ pos' = pos) =>
          /\ batch.len > 0
          /\ Len(posted') = Len(posted) + batch.len
    /\ (ipc = "scanning" /\ pos' = pos /\ ~ierr' /\ batch.len > 0) =>
          result'.Batches = result.Batches + 1

\* C11: the pending batch never holds more than 100 records; a batch is
\* flushed exactly when it reaches 100 records and once more at end of
\* input when it is non-empty, so an import that reads to the end of its
\* input counts ceil(P/100) batches for P well-formed lines, and no flush
\* is ever of an empty batch.
C11_BatchesBounded == [](C11_Bounded) /\ [][C11_FlushStep]_vars

C11_Witness ==
    /\ Returned
    /\ result.Batches = 2
    /\ WellFormed(Len(file)) \in (importBatchSize + 1)..(2 * importBatchSize - 1)
    /\ Len(posted) = WellFormed(Len(file))

\* the batch a flushing step hands to sendBatch
Flushed ==
    IF pos' # pos THEN SliceElems(SliceAppend(batch, [id |-> pos']))
    ELSE SliceElems(batch)

C12_Step ==
    result'.Batches # result.Batches =>
        LET sent == SubSeq(posted', Len(posted) + 1, Len(posted'))
            bad == {i \in 1..Len(sent) : PostFails(sent[i])}
        IN /\ sent = Flushed
           /\ result'.Failed = result.Failed + Cardinality(bad)
           /\ result'.Success = result.Success + Len(sent) - Cardinality(bad)
           /\ (result'.Success - result.Success)
                + (result'.Failed - result.Failed) = Len(Flushed)

\* C12: a flush submits every record of the batch, whatever the earlier
\* submissions of that batch returned; each submission adds one to Success
\* or one to Failed, so the two increments sum to the batch size.
C12_WholeBatchSubmitted == [][C12_Step]_vars

C12_Witness ==
    /\ Returned
    /\ result.Batches = 1
    /\ result.Failed > 0
    /\ \E i \in 1..(Len(posted) - 1) :
          /\ PostFails(posted[i])
          /\ ~PostFails(posted[i + 1])
    /\ result.Success + result.Failed = result.Total

\* C13: the progress callback never blocks the import loop: the import
\* runs to completion and returns its result even if an invocation of the
\* callback does not return.
C13_ImportReturns == <>(ipc = "returned")

----------------------------------------------------------------------------
(* Properties of the validator and of the migrate commands                 *)

Validating == cmd \in {"dry_run", "validate"}

\* a run of ValidateFile ends with the result the previous run gave
C14_Repeatable == (vpc = "validated" /\ vprev.done) => vresult = vprev.result

\* a step of a validation run: nothing is submitted, no import is started,
\* the input is not written
C14_Frame ==
    (Validating \/ Validating') =>
        /\ posted' = posted
        /\ ipc' = ipc
        /\ UNCHANGED importVars
        /\ vfile' = vfile

\* C14: ValidateFile, and migrate import --dry-run, submit nothing to the
\* target and write nothing, and a second run over the same input gives
\* the same Total, Valid, Invalid and list of violations.
C14_DryRunSideEffectFree == [](C14_Repeatable) /\ [][C14_Frame]_vars

C14_Witness ==
    /\ cmd = "dry_run"
    /\ vpc = "validated"
    /\ vprev.done
    /\ vresult.Valid > 0
    /\ vresult.Invalid > 0
    /\ Len(vresult.Errors) > vresult.Invalid
    /\ posted = <<>>

\* the validity of a line as the specification states it
WellFormedLine(line) ==
    /\ line.kind = "object"
    /\ line.type = "text"
    /\ line.queue = "text"
    /\ line.args = "array"
    /\ line.priority \in {"absent", "null", "zero", "positive"}

NonBlank(n) == {i \in 1..n : vfile[i].kind # "blank"}

ValidLines(n) == {i \in NonBlank(n) : WellFormedLine(vfile[i])}

\* C15: a non-blank line is counted valid if and only if it parses as JSON
\* with a non-empty type, a non-empty queue, args that is a JSON array
\* (absent, null, object or scalar args are violations) and a priority
\* absent or >= 0; any other non-blank line is counted invalid once, with
\* at least one violation carrying its line number; Total = Valid + Invalid.
C15_ValidIffWellFormed ==
    vpc \in {"validating", "validated"} =>
        /\ vresult.Total = Cardinality(NonBlank(vpos))
        /\ vresult.Valid = Cardinality(ValidLines(vpos))
        /\ vresult.Invalid = Cardinality(NonBlank(vpos) \ ValidLines(vpos))
        /\ vresult.Total = vresult.Valid + vresult.Invalid
        /\ {vresult.Errors[k].Line : k \in 1..Len(vresult.Errors)}
              = NonBlank(vpos) \ ValidLines(vpos)

----------------------------------------------------------------------------
(* Properties of the naming routines                                       *)

\* C18: the canonicalizer is idempotent: applied to its own result, each
\* naming routine returns that result unchanged.
C18_Idempotent ==
    naming.pc = "twice" =>
        /\ naming.twice.adapter = naming.once.adapter
        /\ naming.twice.analyzer = naming.once.analyzer

C18_Witness ==
    /\ naming.pc = "twice"
    /\ naming.ident = MailersWelcomeEmail
    /\ naming.once.adapter # naming.ident
    /\ naming.twice.adapter = naming.once.adapter
    /\ naming.twice.analyzer = naming.once.analyzer

HTTPServerSplit ==
    <<"h", ".", "t", ".", "t", ".", "p", ".", "s", "e", "r", "v", "e", "r">>

\* C19: HTTPServer is canonicalized to h.t.t.p.server, by the routine of
\* the adapters as by the routine of the code analyzer.
C19_AcronymSplit ==
    (naming.pc = "once" /\ naming.ident = HTTPServer) =>
        /\ naming.once.analyzer = HTTPServerSplit
        /\ naming.once.adapter = HTTPServerSplit
        /\ naming.once.adapter = naming.once.analyzer

----------------------------------------------------------------------------
(* Properties of the source adapters                                       *)

\* the serialized args is a JSON array
IsJSONArray(args) == args.wrapped \/ args.value = "array"

Exported == exported.pc = "returned" /\ ~exported.err

\* C16: whatever the adapter and whatever the shape of the source payload
\* (array, object, scalar, null, absent), the args of every canonical
\* record Export returns is a JSON array.
C16_ArgsAlwaysArray ==
    Exported =>
        \A i \in 1..Len(exported.jobs) : IsJSONArray(exported.jobs[i].Args)

\* C17: no canonical record has an empty type: a raw record whose
\* identifier field is missing or empty is rejected and skipped.
C17_TypeNeverEmpty ==
    Exported =>
        \A i \in 1..Len(exported.jobs) : exported.jobs[i].Type # <<>>

\* a read that Export, respectively Analyze, makes of the store fails
ExportReadFailed == failFrom \in 1..(1 + Len(store))

AnalyzeReadFailed ==
    \/ failFrom = 1
    \/ source # "faktory" /\ failFrom \in 2..(1 + Len(store))

\* C20: when the legacy store cannot be reached, or a read of it fails,
\* Export and Analyze return an error and no result, never a success
\* with an empty or partial list.
C20_ConnectionFailureIsError ==
    /\ (exported.pc = "returned" /\ ExportReadFailed) =>
          (exported.err /\ exported.jobs = <<>>)
    /\ (analysis.pc = "returned" /\ AnalyzeReadFailed) => analysis.err

\* a record that decodes, names its job and carries an array of arguments
WellFormedRecord(raw) ==
    raw.json /\ raw.ident.present /\ raw.ident.name # <<>> /\ raw.args = "array"

WellFormedIn(q) == {i \in 1..Len(store[q]) : WellFormedRecord(store[q][i])}

ExportedFrom(q) == {i \in 1..Len(exported.jobs) : exported.jobs[i].Queue = q}

\* C21: when every read of the store succeeds, Export returns no error and
\* a malformed record costs nothing but itself: every well-formed record of
\* its queue and of every other queue is exported.
C21_MalformedRecordSkipped ==
    (exported.pc = "returned" /\ failFrom = 0) =>
        /\ ~exported.err
        /\ \A q \in 1..Len(store) :
              Cardinality(ExportedFrom(q)) >= Cardinality(WellFormedIn(q))

----------------------------------------------------------------------------
(* Properties of the NDJSON file                                            *)

\* the same JSON value: a nil RawMessage and the bytes null, an int64 and
\* the float64 of the same number
SameArgs(a, b) == a = b \/ {a, b} = {"nil", "null"}

SameMeta(a, b) == a = b \/ (a = "int64" /\ b = "float64")

SameJob(a, b) ==
    /\ a.Type = b.Type /\ a.Queue = b.Queue
    /\ SameArgs(a.Args, b.Args)
    /\ a.Priority = b.Priority
    /\ a.ScheduledAt = b.ScheduledAt
    /\ SameMeta(a.Meta, b.Meta)

\* C22: the file migrateExport wrote for N jobs, read back line by line,
\* gives N records without an error, in the order written, each with the
\* type, queue, args, priority, scheduled_at and meta of the original.
C22_RoundTrip ==
    tpc = "read" =>
        /\ ~terr
        /\ Len(tread) = Len(tjobs)
        /\ \A i \in 1..Len(tread) : SameJob(tjobs[i], tread[i])

----------------------------------------------------------------------------
(* Properties of the status and health handlers                             *)

CountersLeq(a, b) ==
    a.ojs <= b.ojs /\ a.legacy <= b.legacy /\ a.errors <= b.errors

\* the next step of a status request and a health request can be taken
C23_Available ==
    Live =>
        /\ ENABLED (HandleStatus /\ UNCHANGED exceptStatus)
        /\ ENABLED (HandleHealth /\ UNCHANGED exceptStatus)

\* the response carries the state at the response and the counters read
\* during the request, none of which is ahead of the session
C23_ReplyStep ==
    (sreq.pc = "stats_read" /\ sreq'.pc = "replied") =>
        /\ sreq'.code = StatusOK
        /\ sreq'.status = status
        /\ sreq'.stats = sreq.stats
        /\ CountersLeq(sreq'.stats, stats)

\* C23: in every session state (idle, dual_run, cutover, rolled_back) a
\* status request and a health request can be served whatever the
\* HandleJob requests in flight are doing, a status request that has
\* started is answered even if a HandleJob request waits for its outbound
\* Post for ever, and the answer carries the session's state and counters.
C23_StatusNeverBlocks ==
    /\ []C23_Available
    /\ [][C23_ReplyStep]_vars
    /\ (sreq.pc = "stats_read") ~> (sreq.pc = "replied")

\* a status response given after a cutover while a HandleJob request is
\* waiting for its outbound Post
C23_Witness ==
    /\ \E r \in Req : job[r].pc = "forwarding"
    /\ \A r \in Req : job[r].pc \in {"new", "forwarding"}
    /\ status = "cutover"
    /\ sreq.pc = "replied"
    /\ sreq.code = StatusOK
    /\ sreq.status = "cutover"
    /\ sreq.stats = stats
    /\ sreq.stats.ojs >= 1
    /\ hreply.code = StatusOK

\* C24: in every canonical record an adapter exports, scheduled_at is left
\* out or is an RFC3339 timestamp, and it is there only for a source job
\* that is delayed or scheduled.
C24_ScheduledAtRFC3339 ==
    Exported =>
        /\ \A i \in 1..Len(exported.jobs) :
              exported.jobs[i].ScheduledAt \in {"", "rfc3339"}
        /\ (\E i \in 1..Len(exported.jobs) : exported.jobs[i].ScheduledAt # "")
              => \E q \in 1..Len(store) : \E i \in 1..Len(store[q]) :
                    IsScheduled(store[q][i])

----------------------------------------------------------------------------
(* The range of the percentage                                              *)

C25_InRange == percentage \in 0..100

\* a value outside 0..100 is refused: MigrateLive returns the error of
\* StartDualRun without serving, HandleSetPercentage answers 409
C25_Step ==
    /\ \A p \in PctInputs :
          (MigrateLive(p) /\ p \notin 0..100) =>
              (serving' = "failed" /\ Unchanged)
    /\ \A c \in Ctl :
          (Calls(c, "percentage") /\ ctl[c].arg \notin 0..100) =>
              (ctl'[c].code = StatusConflict /\ Unchanged)

----------------------------------------------------------------------------
(* The normal form of a job type                                            *)

\* no uppercase letter, no separator other than single dots inside
NormalForm(str) ==
    /\ \A i \in 1..Len(str) : str[i] \notin Upper \cup {"_", "-", " "}
    /\ \A i \in 1..(Len(str) - 1) :
          /\ ~(str[i] = ":" /\ str[i + 1] = ":")
          /\ ~(str[i] = "." /\ str[i + 1] = ".")
    /\ Len(str) > 0 => (str[1] # "." /\ str[Len(str)] # ".")

\* C26: whatever the identifier, the job type the Sidekiq adapter derives
\* from it has no uppercase letter, none of the separators ::, _, - or
\* space, no two dots in a row and no dot at either end.
C26_NormalForm ==
    naming.pc \in {"once", "twice"} => NormalForm(naming.once.adapter)

----------------------------------------------------------------------------
(* Properties of Migration.Run                                              *)

Running(c) == mrun[c].pc \in {"exporting", "importing", "verifying"}

Returns(c) == mrun[c].pc # "returned" /\ mrun'[c].pc = "returned"

\* the path of one migration
PathEdges ==
    {<<"idle", "exporting">>, <<"exporting", "importing">>,
     <<"importing", "verifying">>, <<"verifying", "complete">>,
     <<"exporting", "failed">>, <<"verifying", "failed">>}

\* a later Run starts from the phase the one before it ended in
RestartEdges == {<<"complete", "exporting">>, <<"failed", "exporting">>}

\* at most one call of Run is past m.mu.Lock()
C27_Serialized == Cardinality({c \in RunCalls : Running(c)}) <= 1

\* one step of Run, the phase moving along the given edges only
C27_Step(edges) ==
    /\ mstats'.Phase # mstats.Phase =>
          <<mstats.Phase, mstats'.Phase>> \in edges
    /\ \A c \in RunCalls :
          /\ (mstats'.Phase = "failed" /\ Returns(c)) <=>
                (exportJobs(c, FALSE, <<>>) \/ verifyTarget(c, FALSE))
          /\ Returns(c) =>
                (mrun'[c].ret = "nil" <=>
                    (mstats'.Phase = "complete" /\ mstats'.CompletedAt))
          /\ (\E accepted \in BOOLEAN : importJob(c, accepted)) =>
                (~Returns(c) /\ mstats'.Phase = "importing")

\* C27: Run moves Phase only along idle -> exporting -> importing ->
\* verifying -> complete, diverting to failed exactly when the export
\* request or the health check of the target fails; Run returns nil exactly
\* when it ends in complete with CompletedAt set; the failure of a job's
\* import never fails Run; concurrent Run calls are serialized.
C27_PhasePath == []C27_Serialized /\ [][C27_Step(PathEdges)]_vars

\* C27 as amended: the same, a Run on a Migration that has already run
\* moving Phase from complete or failed back to exporting first.
C27_PhasePathOfEachRun ==
    []C27_Serialized /\ [][C27_Step(PathEdges \cup RestartEdges)]_vars

\* a Run that completed, then a Run on the same Migration that failed at
\* the health check after one of its imports had failed
C27_Witness ==
    /\ mrun[1].pc = "returned" /\ mrun[1].ret = "nil"
    /\ mrun[2].pc = "returned" /\ mrun[2].ret = "error"
    /\ mstats.Phase = "failed"
    /\ mstats.Errors >= 1
    /\ mstats.Exported >= 1

----------------------------------------------------------------------------
(* The tallies of the import result                                         *)

\* C28: whenever the import returns a result, with or without a read error
\* of the scanner, Total = Success + Failed: every record counted in Total
\* has been tallied as a success or as a failure.
C28_TotalIsSuccessPlusFailed ==
    ipc = "returned" => result.Total = result.Success + result.Failed

----------------------------------------------------------------------------
(* The counters of Migration.Run                                            *)

\* call c returns from the verify phase: it got past the export
ReturnsPastExport(c) == Returns(c) /\ mrun[c].pc = "verifying"

C29_Step ==
    \A c \in RunCalls : ReturnsPastExport(c) =>
        /\ mstats'.Imported + mstats'.Errors = mstats'.Exported
        /\ mdry => (mstats'.Imported = mstats'.Exported /\ mposts' = 0)
        /\ mstats'.CompletedAt <=> mstats'.Phase = "complete"

\* C29: after a Run that got past the export phase, Imported + Errors =
\* Exported (in a dry run Imported = Exported and no job-creation request
\* went to the target) and CompletedAt is set exactly when Phase is
\* complete, also when Run is called again on the same Migration.
C29_CountersBalance == [][C29_Step]_vars

----------------------------------------------------------------------------
(* Routing after a rollback and after a cutover                             *)

\* request r takes its routing decision in this step
Decides(r) == job[r].decision = "none" /\ job'[r].decision # "none"

C30_Step ==
    /\ status = "rolled_back" => status' = "rolled_back"
    /\ status = "cutover" => status' \in {"cutover", "rolled_back"}
    /\ \A r \in Req : Decides(r) =>
          /\ status = "rolled_back" =>
                /\ job'[r].decision = "legacy"
                /\ job'[r].path = "legacy"
                /\ ~job'[r].fwd
          /\ status = "cutover" => job'[r].decision = "ojs"

\* C30: once a rollback has completed no request that is decided
\* afterwards is forwarded to the target, whatever percentage, cutover or
\* rollback requests follow; once a cutover has completed every request
\* decided afterwards is routed to the target, until a rollback completes.
C30_RollbackAndCutoverStick == [][C30_Step]_vars

\* a request decided after the cutover and forwarded, then a request
\* decided after the rollback and passed through
C30_Witness ==
    \E r, q \in Req :
        /\ job[r].state = "cutover" /\ job[r].decision = "ojs" /\ job[r].fwd
        /\ job[q].state = "rolled_back" /\ job[q].decision = "legacy"
        /\ job[q].pc = "done" /\ ~job[q].fwd
        /\ status = "rolled_back"

====
